---- MODULE Spec2Model ----
(***************************************************************************)
(* Model of valheim_save_tools_py/valheimItemReader.py: the binary reader  *)
(* ValheimItemReader (a cursor over a byte buffer) and the collection       *)
(* decoder parse_items_from_base64; and of SaveFileProcessor in            *)
(* valheim_save_tools_py/wrapper.py.                                       *)
(*                                                                         *)
(* Bytes are integers 0..255, a buffer is a sequence of bytes, text is a   *)
(* sequence of Unicode code points, base64 text is a sequence of ASCII     *)
(* codes.  A 32-bit integer is its signed value; a 64-bit integer is kept  *)
(* as four 16-bit limbs <<w3, w2, w1, w0>> (w3 signed), a float32 as its   *)
(* IEEE-754 fields [sign, exp, mant].                                      *)
(***************************************************************************)
EXTENDS Integers, Sequences, FiniteSets, TLC

VARIABLES b64_string, data, offset, unknown_data, unknown_byte,
          pc, version, num_items, i, items, raised, log, attempts,
          last, origin,
          calls, handler,
          files, dirs, made, _current_file, _operations, _temp_files,
          _temp_dir, _in_context, wpc, exc, commands, copies, saves, result,
          streams, call, ncalls

\* The state of two calls of parse_items_from_base64 in flight and of the
\* module's logger.
twoVars == <<calls, handler>>

\* The state of a SaveFileProcessor and of the file system around it.
withVars == <<files, dirs, made, _current_file, _operations, _temp_files,
              _temp_dir, _in_context, wpc, exc, commands, copies, saves,
              result>>

\* The file-like objects handed to the methods of ValheimSaveTools, the
\* latest call of such a method and the number of calls made.
toolVars == <<streams, call, ncalls>>

vars == <<b64_string, data, offset, unknown_data, unknown_byte,
          pc, version, num_items, i, items, raised, log, attempts,
          last, origin, twoVars, withVars, toolVars>>

\* No method of ValheimSaveTools has been called.
IdleTools == streams = <<>> /\ call = <<>> /\ ncalls = 0

\* The state of one call of parse_items_from_base64, or of one reader.
parseVars == <<b64_string, data, offset, unknown_data, unknown_byte,
               pc, version, num_items, i, items, raised, log, attempts,
               last, origin>>

\* No pair of calls is in flight.
IdleTwo == calls = <<>> /\ handler = <<>>

\* No SaveFileProcessor has been constructed.
IdleWith ==
    /\ files = <<>>
    /\ dirs = {}
    /\ made = 0
    /\ _current_file = <<>>
    /\ _operations = <<>>
    /\ _temp_files = <<>>
    /\ _temp_dir = 0
    /\ _in_context = FALSE
    /\ wpc = "none"
    /\ exc = "none"
    /\ commands = <<>>
    /\ copies = <<>>
    /\ saves = 0
    /\ result = <<>>

(***************************************************************************)
(* Bounds of the model.                                                    *)
(***************************************************************************)
MaxItems == 2
MaxLen == 2
MaxOps == 2
MaxSaves == 2
MaxCalls == 1

(***************************************************************************)
(* Program constants.                                                      *)
(***************************************************************************)
UNKNOWN_DATA_SIZE == 8
UNKNOWN_BYTE_SIZE == 1

(***************************************************************************)
(* Python sequence primitives.                                             *)
(***************************************************************************)
Min(a, b) == IF a < b THEN a ELSE b
Max(a, b) == IF a > b THEN a ELSE b

\* data[lo:hi] for 0 <= lo <= hi: a slice never fails, it is cut at the
\* end of the buffer (0-based lo, exclusive hi).
Slice(d, lo, hi) ==
    LET a == Min(lo, Len(d))
        b == Min(hi, Len(d))
    IN  IF b <= a THEN <<>> ELSE SubSeq(d, a + 1, b)

\* struct.unpack('>i', b)[0]: the same four bytes taken big-endian.
UnpackInt32BigEndian(b) ==
    (IF b[1] >= 128 THEN b[1] - 256 ELSE b[1]) * 16777216
        + b[2] * 65536 + b[3] * 256 + b[4]

\* struct.unpack('<i', b)[0]: little-endian two's complement, 4 bytes.
UnpackInt32(b) ==
    (IF b[4] >= 128 THEN b[4] - 256 ELSE b[4]) * 16777216
        + b[3] * 65536 + b[2] * 256 + b[1]

\* struct.unpack('<q', b)[0]: little-endian two's complement, 8 bytes,
\* as limbs <<w3, w2, w1, w0>> of weight 2^48, 2^32, 2^16, 1.
UnpackInt64(b) ==
    << (IF b[8] >= 128 THEN b[8] - 256 ELSE b[8]) * 256 + b[7],
       b[6] * 256 + b[5],
       b[4] * 256 + b[3],
       b[2] * 256 + b[1] >>

\* struct.unpack('<f', b)[0]: IEEE-754 single precision, little-endian.
UnpackFloat(b) ==
    [sign |-> b[4] \div 128,
     exp  |-> (b[4] % 128) * 2 + (b[3] \div 128),
     mant |-> (b[3] % 128) * 65536 + b[2] * 256 + b[1]]

(***************************************************************************)
(* bytes.decode('utf-8'), strict: the code points of a byte sequence, or   *)
(* failure on an ill-formed sequence (bad lead byte, missing or bad         *)
(* continuation byte, overlong form, surrogate, beyond U+10FFFF).          *)
(***************************************************************************)
IsCont(x) == x >= 128 /\ x <= 191

\* Number of bytes of the character that starts with lead byte x, 0 if x
\* cannot start a character.
Utf8Width(x) ==
    IF x <= 127 THEN 1
    ELSE IF x >= 194 /\ x <= 223 THEN 2
    ELSE IF x >= 224 /\ x <= 239 THEN 3
    ELSE IF x >= 240 /\ x <= 244 THEN 4
    ELSE 0

\* The second byte of a character is restricted for some lead bytes.
Utf8SecondOk(x, y) ==
    IF x = 224 THEN y >= 160 /\ y <= 191
    ELSE IF x = 237 THEN y >= 128 /\ y <= 159
    ELSE IF x = 240 THEN y >= 144 /\ y <= 191
    ELSE IF x = 244 THEN y >= 128 /\ y <= 143
    ELSE IsCont(y)

RECURSIVE Utf8DecodeFrom(_, _, _)
Utf8DecodeFrom(b, k, acc) ==
    IF k > Len(b) THEN [ok |-> TRUE, text |-> acc]
    ELSE LET x == b[k]
             w == Utf8Width(x)
         IN  IF w = 0 \/ k + w - 1 > Len(b) THEN [ok |-> FALSE, text |-> <<>>]
             ELSE IF w = 1 THEN Utf8DecodeFrom(b, k + 1, Append(acc, x))
             ELSE IF ~Utf8SecondOk(x, b[k + 1]) THEN [ok |-> FALSE, text |-> <<>>]
             ELSE IF w = 2
                  THEN Utf8DecodeFrom(b, k + 2,
                         Append(acc, (x - 192) * 64 + (b[k + 1] - 128)))
             ELSE IF ~IsCont(b[k + 2]) THEN [ok |-> FALSE, text |-> <<>>]
             ELSE IF w = 3
                  THEN Utf8DecodeFrom(b, k + 3,
                         Append(acc, (x - 224) * 4096 + (b[k + 1] - 128) * 64
                                       + (b[k + 2] - 128)))
             ELSE IF ~IsCont(b[k + 3]) THEN [ok |-> FALSE, text |-> <<>>]
             ELSE Utf8DecodeFrom(b, k + 4,
                    Append(acc, (x - 240) * 262144 + (b[k + 1] - 128) * 4096
                                  + (b[k + 2] - 128) * 64 + (b[k + 3] - 128)))

Utf8Decode(b) == Utf8DecodeFrom(b, 1, <<>>)

(***************************************************************************)
(* ValheimItemReader.  A read takes the buffer d and the offset o and      *)
(* yields [ok, err, value, offset]: whether it returned, the exception it   *)
(* raised otherwise, the value returned, and self.offset afterwards.       *)
(***************************************************************************)
Returned(v, o) == [ok |-> TRUE, err |-> "none", value |-> v, offset |-> o]
Raised(e, o) == [ok |-> FALSE, err |-> e, value |-> <<>>, offset |-> o]

\* read_byte: data[offset] raises IndexError at or past the end.
ReadByte(d, o) ==
    IF o < Len(d) THEN Returned(d[o + 1], o + 1)
    ELSE Raised("IndexError", o)

\* read_int32 that rewinds the reader to the start of the buffer when it
\* fails.
ReadInt32Rewind(d, o) ==
    LET b == Slice(d, o, o + 4)
    IN  IF Len(b) = 4 THEN Returned(UnpackInt32(b), o + 4)
        ELSE Raised("struct.error", 0)

\* read_int32: struct.unpack raises struct.error unless the slice has 4 bytes.
ReadInt32(d, o) ==
    LET b == Slice(d, o, o + 4)
    IN  IF Len(b) = 4 THEN Returned(UnpackInt32(b), o + 4)
        ELSE Raised("struct.error", o)

\* read_int64
ReadInt64(d, o) ==
    LET b == Slice(d, o, o + 8)
    IN  IF Len(b) = 8 THEN Returned(UnpackInt64(b), o + 8)
        ELSE Raised("struct.error", o)

\* read_float
ReadFloat(d, o) ==
    LET b == Slice(d, o, o + 4)
    IN  IF Len(b) = 4 THEN Returned(UnpackFloat(b), o + 4)
        ELSE Raised("struct.error", o)

\* read_bool with `== 1` in place of `!= 0`.
ReadBoolIsOne(d, o) ==
    IF o < Len(d) THEN Returned(d[o + 1] = 1, o + 1)
    ELSE Raised("IndexError", o)

\* read_bool
ReadBool(d, o) ==
    IF o < Len(d) THEN Returned(d[o + 1] # 0, o + 1)
    ELSE Raised("IndexError", o)

\* read_string with the offset advanced by the number of characters decoded
\* instead of the number of bytes read.
ReadStringByChars(d, o) ==
    LET lenRead == ReadByte(d, o)
    IN  IF ~lenRead.ok THEN lenRead
        ELSE LET length == lenRead.value
                 o1 == lenRead.offset
             IN  IF length = 0 THEN Returned(<<>>, o1)
                 ELSE LET dec == Utf8Decode(Slice(d, o1, o1 + length))
                      IN  IF dec.ok THEN Returned(dec.text, o1 + Len(dec.text))
                          ELSE Raised("UnicodeDecodeError", o1)

\* read_string: the length byte is read with read_byte; the body is a
\* slice, decoded as UTF-8, and offset is advanced by the length read.
ReadString(d, o) ==
    LET lenRead == ReadByte(d, o)
    IN  IF ~lenRead.ok THEN lenRead
        ELSE LET length == lenRead.value
                 o1 == lenRead.offset
             IN  IF length = 0 THEN Returned(<<>>, o1)
                 ELSE LET dec == Utf8Decode(Slice(d, o1, o1 + length))
                      IN  IF dec.ok THEN Returned(dec.text, o1 + length)
                          ELSE Raised("UnicodeDecodeError", o1)

\* The fields read_item reads, in order, and the read used for each.
ItemFields ==
    << <<"name", "string">>, <<"stack", "int32">>, <<"durability", "float">>,
       <<"pos_x", "int32">>, <<"pos_y", "int32">>, <<"equipped", "bool">>,
       <<"quality", "int32">>, <<"variant", "int32">>,
       <<"crafter_id", "int64">>, <<"crafter_name", "string">> >>

ReadKind(kind, d, o) ==
    CASE kind = "string" -> ReadString(d, o)
      [] kind = "int32"  -> ReadInt32(d, o)
      [] kind = "int64"  -> ReadInt64(d, o)
      [] kind = "float"  -> ReadFloat(d, o)
      [] kind = "bool"   -> ReadBool(d, o)
      [] kind = "byte"   -> ReadByte(d, o)

\* The reader has no unknown_data / unknown_byte attribute before the first
\* read_item that gets that far.
NoData == <<-1>>
NoByte == -1

\* item = {}; item[f] = self.read_<kind>() for the fields from k on.
RECURSIVE ReadFieldsFrom(_, _, _, _)
ReadFieldsFrom(d, o, k, item) ==
    IF k > Len(ItemFields) THEN Returned(item, o)
    ELSE LET r == ReadKind(ItemFields[k][2], d, o)
         IN  IF ~r.ok THEN r
             ELSE ReadFieldsFrom(d, r.offset, k + 1,
                                 item @@ (ItemFields[k][1] :> r.value))

\* read_item with the last byte taken as a slice, which never raises.
ReadItemSliceByte(d, o, ud, ub) ==
    LET f == ReadFieldsFrom(d, o, 1, <<>>)
    IN  IF ~f.ok
        THEN [ok |-> FALSE, err |-> f.err, value |-> <<>>, offset |-> f.offset,
              unknown_data |-> ud, unknown_byte |-> ub]
        ELSE LET nud == Slice(d, f.offset, f.offset + UNKNOWN_DATA_SIZE)
                 o1 == f.offset + UNKNOWN_DATA_SIZE
             IN  [ok |-> TRUE, err |-> "none", value |-> f.value,
                  offset |-> o1 + UNKNOWN_BYTE_SIZE,
                  unknown_data |-> nud, unknown_byte |-> NoByte]

\* read_item: the ten fields, then self.unknown_data = an 8-byte slice,
\* offset += 8, self.unknown_byte = read_byte().  ud, ub are the reader's
\* unknown_data and unknown_byte before the call; the result carries them
\* as they are after it.
ReadItem(d, o, ud, ub) ==
    LET f == ReadFieldsFrom(d, o, 1, <<>>)
    IN  IF ~f.ok
        THEN [ok |-> FALSE, err |-> f.err, value |-> <<>>, offset |-> f.offset,
              unknown_data |-> ud, unknown_byte |-> ub]
        ELSE LET nud == Slice(d, f.offset, f.offset + UNKNOWN_DATA_SIZE)
                 o1 == f.offset + UNKNOWN_DATA_SIZE
                 b == ReadByte(d, o1)
             IN  IF b.ok
                 THEN [ok |-> TRUE, err |-> "none", value |-> f.value,
                       offset |-> b.offset,
                       unknown_data |-> nud, unknown_byte |-> b.value]
                 ELSE [ok |-> FALSE, err |-> b.err, value |-> <<>>,
                       offset |-> b.offset,
                       unknown_data |-> nud, unknown_byte |-> ub]

(***************************************************************************)
(* base64.b64decode(s) with the default validate=False.  The characters    *)
(* outside the alphabet are discarded; decoding ends at the first pad      *)
(* sequence that completes a quad (one '=' after three characters of a     *)
(* quad, two after two), and whatever follows is ignored; a '=' elsewhere   *)
(* is ignored; without such a pad sequence an incomplete last quad raises  *)
(* binascii.Error.  Text is a sequence of character codes; a str with a    *)
(* non-ASCII character raises ValueError.                                  *)
(***************************************************************************)
PadChar == 61

\* The value of an alphabet character (A-Z a-z 0-9 + /), -1 for any other.
B64Value(c) ==
    IF c >= 65 /\ c <= 90 THEN c - 65
    ELSE IF c >= 97 /\ c <= 122 THEN c - 71
    ELSE IF c >= 48 /\ c <= 57 THEN c + 4
    ELSE IF c = 43 THEN 62
    ELSE IF c = 47 THEN 63
    ELSE -1

IsB64Char(c) == B64Value(c) # -1
IsB64OrPad(c) == c = PadChar \/ IsB64Char(c)

\* The bytes of a sequence v of alphabet characters: three for each full
\* quad, one or two for a last quad of two or three characters.
B64Bytes(v) ==
    LET n == Len(v)
        q == n % 4
        x(j) == B64Value(v[j])
    IN  [m \in 1..((n \div 4) * 3 + (IF q = 0 THEN 0 ELSE q - 1)) |->
           LET g == 4 * ((m - 1) \div 3)
               r == (m - 1) % 3
           IN  IF r = 0 THEN x(g + 1) * 4 + (x(g + 2) \div 16)
               ELSE IF r = 1 THEN (x(g + 2) % 16) * 16 + (x(g + 3) \div 4)
               ELSE (x(g + 3) % 4) * 64 + x(g + 4)]

B64Decode(t) ==
    IF \E k \in 1..Len(t) : t[k] > 127
    THEN [ok |-> FALSE, err |-> "ValueError", bytes |-> <<>>]
    ELSE LET s == SelectSeq(t, IsB64OrPad)
             \* position in the quad when s[k] is met
             QuadPos(k) == Len(SelectSeq(SubSeq(s, 1, k), IsB64Char)) % 4
             Stops == { k \in 1..Len(s) :
                          /\ s[k] = PadChar
                          /\ \/ QuadPos(k) = 3
                             \/ QuadPos(k) = 2 /\ k > 1 /\ s[k - 1] = PadChar }
             stop == IF Stops = {} THEN Len(s) + 1
                     ELSE CHOOSE k \in Stops : \A j \in Stops : k <= j
             v == SelectSeq(SubSeq(s, 1, stop - 1), IsB64Char)
         IN  IF Stops = {} /\ Len(v) % 4 # 0
             THEN [ok |-> FALSE, err |-> "binascii.Error", bytes |-> <<>>]
             ELSE [ok |-> TRUE, err |-> "none", bytes |-> B64Bytes(v)]

(***************************************************************************)
(* The producing side, as the tests build their inputs: struct.pack,       *)
(* str.encode('utf-8'), the record layout and base64.b64encode.            *)
(***************************************************************************)
\* struct.pack('<i', v)
PackInt32(v) ==
    << v % 256, (v \div 256) % 256, (v \div 65536) % 256,
       (v \div 16777216) % 256 >>

\* Two bytes of a 16-bit limb, low byte first (a signed limb wraps).
PackLimb(w) == << w % 256, (w \div 256) % 256 >>

\* struct.pack('<q', v), v as limbs <<w3, w2, w1, w0>>
PackInt64(v) == PackLimb(v[4]) \o PackLimb(v[3]) \o PackLimb(v[2]) \o PackLimb(v[1])

\* struct.pack('<f', v), v as [sign, exp, mant]
PackFloat(v) ==
    << v.mant % 256, (v.mant \div 256) % 256,
       (v.exp % 2) * 128 + (v.mant \div 65536),
       v.sign * 128 + (v.exp \div 2) >>

\* The UTF-8 bytes of one code point.
Utf8Char(cp) ==
    IF cp < 128 THEN << cp >>
    ELSE IF cp < 2048 THEN << 192 + (cp \div 64), 128 + (cp % 64) >>
    ELSE IF cp < 65536
         THEN << 224 + (cp \div 4096), 128 + ((cp \div 64) % 64),
                 128 + (cp % 64) >>
    ELSE << 240 + (cp \div 262144), 128 + ((cp \div 4096) % 64),
            128 + ((cp \div 64) % 64), 128 + (cp % 64) >>

RECURSIVE Utf8Encode(_)
Utf8Encode(text) ==
    IF text = <<>> THEN <<>>
    ELSE Utf8Char(Head(text)) \o Utf8Encode(Tail(text))

\* A string field: one length byte, then the UTF-8 bytes.  The length byte
\* is the byte count of the record layout (the test helper writes
\* len(name), the same number for the ASCII names it is called with).
PackString(text) ==
    LET b == Utf8Encode(text) IN << Len(b) >> \o b

\* One record in the layout read_item reads; r.trailing is the 8 + 1
\* bytes that follow the crafter name.
EncodeItem(r) ==
    PackString(r.name) \o PackInt32(r.stack) \o PackFloat(r.durability)
      \o PackInt32(r.pos_x) \o PackInt32(r.pos_y)
      \o << IF r.equipped THEN 1 ELSE 0 >>
      \o PackInt32(r.quality) \o PackInt32(r.variant)
      \o PackInt64(r.crafter_id) \o PackString(r.crafter_name)
      \o r.trailing

RECURSIVE EncodeItems(_)
EncodeItems(rs) ==
    IF rs = <<>> THEN <<>> ELSE EncodeItem(Head(rs)) \o EncodeItems(Tail(rs))

\* version, num_items, then the records.
EncodeEnvelope(ver, count, rs) ==
    PackInt32(ver) \o PackInt32(count) \o EncodeItems(rs)

\* The alphabet character of a 6-bit value.
B64Char(v) ==
    IF v < 26 THEN 65 + v
    ELSE IF v < 52 THEN 71 + v
    ELSE IF v < 62 THEN v - 4
    ELSE IF v = 62 THEN 43
    ELSE 47

\* base64.b64encode(b).decode('utf-8'): four characters for every three
\* bytes, the last group padded with '='.
B64Encode(b) ==
    LET n == Len(b)
        y(j) == IF j <= n THEN b[j] ELSE 0
    IN  [p \in 1..(4 * ((n + 2) \div 3)) |->
           LET g == 3 * ((p - 1) \div 4)
               r == (p - 1) % 4
           IN  IF r = 0 THEN B64Char(y(g + 1) \div 4)
               ELSE IF r = 1
                    THEN B64Char((y(g + 1) % 4) * 16 + (y(g + 2) \div 16))
               ELSE IF r = 2
                    THEN IF g + 2 > n THEN PadChar
                         ELSE B64Char((y(g + 2) % 16) * 4 + (y(g + 3) \div 64))
               ELSE IF g + 3 > n THEN PadChar
                    ELSE B64Char(y(g + 3) % 64)]

(***************************************************************************)
(* Inputs.  A record value has the ten fields of an item and the nine      *)
(* bytes that trail it in the buffer.                                      *)
(***************************************************************************)
\* "Wd", stack 50, durability 100.0, not equipped, no crafter.
RecWood ==
    [name |-> <<87, 100>>, stack |-> 50,
     durability |-> [sign |-> 0, exp |-> 133, mant |-> 4718592],
     pos_x |-> 0, pos_y |-> 0, equipped |-> FALSE, quality |-> 1,
     variant |-> 0, crafter_id |-> <<0, 0, 0, 0>>, crafter_name |-> <<>>,
     trailing |-> <<0, 0, 0, 0, 0, 0, 0, 0, 0>>]

\* U+00E9 (two UTF-8 bytes), stack -1, durability 75.5, equipped,
\* crafter 987654321 "W".
RecSword ==
    [name |-> <<233>>, stack |-> -1,
     durability |-> [sign |-> 0, exp |-> 133, mant |-> 1507328],
     pos_x |-> 3, pos_y |-> 1, equipped |-> TRUE, quality |-> 2,
     variant |-> 0, crafter_id |-> <<0, 0, 15070, 26801>>,
     crafter_name |-> <<87>>,
     trailing |-> <<1, 2, 3, 4, 5, 6, 7, 8, 9>>]

\* Empty name, extreme integers, durability -0.0, crafter -2 named U+1F600
\* (four UTF-8 bytes).
RecBow ==
    [name |-> <<>>, stack |-> 2147483647,
     durability |-> [sign |-> 1, exp |-> 0, mant |-> 0],
     pos_x |-> -2147483647 - 1, pos_y |-> 258, equipped |-> TRUE, quality |-> 4,
     variant |-> 65536, crafter_id |-> <<-1, 65535, 65535, 65534>>,
     crafter_name |-> <<128512>>,
     trailing |-> <<255, 0, 255, 0, 255, 0, 255, 0, 128>>]

Records == {RecWood, RecSword, RecBow}

\* Sequences of at most MaxItems records, duplicates included.
RecSeqs == UNION { [1..n -> Records] : n \in 0..MaxItems }

\* The num_items that an envelope declares, independent of what follows.
Counts == -1..(MaxItems + 1)

Versions == {1, 2}

\* Buffers of at most MaxLen bytes over a few byte values.
RawBytes == {0, 2, 97, 255}
RawBuffers == UNION { [1..n -> RawBytes] : n \in 0..MaxLen }

\* One fault at most per input: the buffer cut to its first `at` bytes,
\* one byte of the at-th record overwritten with 0xFF, a '!' inserted
\* after `at` characters of the text, or `at` characters dropped from the
\* end of the text.
NoDamage == [kind |-> "none", at |-> 0]
BufferDamages(full) == { [kind |-> "cut", at |-> t] : t \in 0..(Len(full) - 1) }
RecordDamages(rs) == { [kind |-> "bad", at |-> j] : j \in 1..Len(rs) }
TextDamages ==
    { [kind |-> "bang", at |-> p] : p \in {0, 5} }
      \cup { [kind |-> "drop", at |-> n] : n \in {1, 2} }

\* The equipped byte of a lone record overwritten with the value `at`.
EquipDamages == { [kind |-> "equip", at |-> v] : v \in {0, 2, 128, 255} }

\* The position (1-based) of the equipped byte in the encoding of one
\* record: the length byte, the name, then 16 bytes of fields.
EquippedAt(full) == 1 + full[1] + 17

\* The position (1-based) of the first byte of the j-th record in the
\* envelope of rs.
RecordStart(rs, j) == 8 + Len(EncodeItems(SubSeq(rs, 1, j - 1))) + 1

DamagedBytes(full, rs, dm) ==
    IF dm.kind = "cut" THEN SubSeq(full, 1, dm.at)
    ELSE IF dm.kind = "bad"
         THEN [k \in 1..Len(full) |->
                 IF k = RecordStart(rs, dm.at) + 1 THEN 255 ELSE full[k]]
    ELSE IF dm.kind = "equip"
         THEN [k \in 1..Len(full) |->
                 IF k = EquippedAt(full) THEN dm.at ELSE full[k]]
    ELSE full

DamagedText(t, dm) ==
    IF dm.kind = "bang"
    THEN LET p == Min(dm.at, Len(t))
         IN  SubSeq(t, 1, p) \o << 33 >> \o SubSeq(t, p + 1, Len(t))
    ELSE IF dm.kind = "drop" THEN SubSeq(t, 1, Len(t) - Min(dm.at, Len(t)))
    ELSE t

\* The bytes and the text of the input that an origin describes.
InputBytes(o) ==
    DamagedBytes(EncodeEnvelope(o.version, o.count, o.recs), o.recs, o.damage)
InputText(o) == DamagedText(B64Encode(InputBytes(o)), o.damage)

\* No read has been made.
NoRead == [op |-> "none", ok |-> TRUE, err |-> "none", before |-> 0, value |-> <<>>]

(***************************************************************************)
(* parse_items_from_base64(b64_string)                                     *)
(***************************************************************************)
Init ==
    /\ \E rs \in RecSeqs, c \in Counts, v \in Versions :
         \E dm \in {NoDamage} \cup BufferDamages(EncodeEnvelope(v, c, rs))
                     \cup RecordDamages(rs) \cup TextDamages :
            origin = [kind |-> "parse", recs |-> rs, count |-> c,
                      version |-> v, damage |-> dm]
    /\ b64_string = InputText(origin)
    /\ data = <<>>
    /\ offset = 0
    /\ unknown_data = NoData
    /\ unknown_byte = NoByte
    /\ pc = "start"
    /\ version = 0
    /\ num_items = 0
    /\ i = 0
    /\ items = <<>>
    /\ raised = "none"
    /\ log = <<>>
    /\ attempts = 0
    /\ last = NoRead
    /\ IdleTwo
    /\ IdleWith
    /\ IdleTools

\* data = base64.b64decode(b64_string); reader = ValheimItemReader(data)
Decode ==
    /\ pc = "start"
    /\ LET r == B64Decode(b64_string)
       IN  IF r.ok
           THEN /\ data' = r.bytes
                /\ pc' = "read_version"
                /\ UNCHANGED raised
           ELSE /\ raised' = r.err
                /\ pc' = "raised"
                /\ UNCHANGED data
    /\ offset' = 0
    /\ UNCHANGED <<twoVars, withVars, toolVars>>
    /\ UNCHANGED <<b64_string, unknown_data, unknown_byte, version, num_items,
                   i, items, log, attempts, last, origin>>

\* version = reader.read_int32(), outside any try.
ReadVersion ==
    /\ pc = "read_version"
    /\ LET r == ReadInt32(data, offset)
       IN  /\ offset' = r.offset
           /\ IF r.ok
              THEN /\ version' = r.value
                   /\ pc' = "read_num_items"
                   /\ UNCHANGED raised
              ELSE /\ raised' = r.err
                   /\ pc' = "raised"
                   /\ UNCHANGED version
    /\ UNCHANGED <<twoVars, withVars, toolVars>>
    /\ UNCHANGED <<b64_string, data, unknown_data, unknown_byte, num_items,
                   i, items, log, attempts, last, origin>>

\* num_items = reader.read_int32(), outside any try; items = [].
ReadNumItems ==
    /\ pc = "read_num_items"
    /\ LET r == ReadInt32(data, offset)
       IN  /\ offset' = r.offset
           /\ IF r.ok
              THEN /\ num_items' = r.value
                   /\ pc' = "loop"
                   /\ UNCHANGED raised
              ELSE /\ raised' = r.err
                   /\ pc' = "raised"
                   /\ UNCHANGED num_items
    /\ UNCHANGED <<twoVars, withVars, toolVars>>
    /\ UNCHANGED <<b64_string, data, unknown_data, unknown_byte, version,
                   i, items, log, attempts, last, origin>>

\* The loop body with `continue` in place of `break`.
LoopItemContinue ==
    /\ pc = "loop"
    /\ i < num_items
    /\ LET r == ReadItem(data, offset, unknown_data, unknown_byte)
       IN  /\ offset' = r.offset
           /\ unknown_data' = r.unknown_data
           /\ unknown_byte' = r.unknown_byte
           /\ i' = i + 1
           /\ IF r.ok
              THEN /\ items' = Append(items, r.value)
                   /\ UNCHANGED log
              ELSE /\ log' = Append(log, [index |-> i + 1, err |-> r.err,
                                          offset |-> r.offset])
                   /\ UNCHANGED items
    /\ attempts' = attempts + 1
    /\ UNCHANGED <<twoVars, withVars, toolVars>>
    /\ UNCHANGED <<b64_string, data, version, num_items, raised, last, origin, pc>>

\* The loop body with items.insert(0, item) in place of items.append(item).
LoopItemPrepend ==
    /\ pc = "loop"
    /\ i < num_items
    /\ LET r == ReadItem(data, offset, unknown_data, unknown_byte)
       IN  /\ offset' = r.offset
           /\ unknown_data' = r.unknown_data
           /\ unknown_byte' = r.unknown_byte
           /\ IF r.ok
              THEN /\ items' = << r.value >> \o items
                   /\ i' = i + 1
                   /\ UNCHANGED <<log, pc>>
              ELSE /\ log' = Append(log, [index |-> i + 1, err |-> r.err,
                                          offset |-> r.offset])
                   /\ pc' = "break"
                   /\ UNCHANGED <<items, i>>
    /\ attempts' = attempts + 1
    /\ UNCHANGED <<twoVars, withVars, toolVars>>
    /\ UNCHANGED <<b64_string, data, version, num_items, raised, last, origin>>

\* The loop over range(num_items + 1).
LoopItemOneMore ==
    /\ pc = "loop"
    /\ i <= num_items
    /\ LET r == ReadItem(data, offset, unknown_data, unknown_byte)
       IN  /\ offset' = r.offset
           /\ unknown_data' = r.unknown_data
           /\ unknown_byte' = r.unknown_byte
           /\ IF r.ok
              THEN /\ items' = Append(items, r.value)
                   /\ i' = i + 1
                   /\ UNCHANGED <<log, pc>>
              ELSE /\ log' = Append(log, [index |-> i + 1, err |-> r.err,
                                          offset |-> r.offset])
                   /\ pc' = "break"
                   /\ UNCHANGED <<items, i>>
    /\ attempts' = attempts + 1
    /\ UNCHANGED <<twoVars, withVars, toolVars>>
    /\ UNCHANGED <<b64_string, data, version, num_items, raised, last, origin>>

\* The loop written `while i != num_items`.
LoopItemNotEqual ==
    /\ pc = "loop"
    /\ i # num_items
    /\ LET r == ReadItem(data, offset, unknown_data, unknown_byte)
       IN  /\ offset' = r.offset
           /\ unknown_data' = r.unknown_data
           /\ unknown_byte' = r.unknown_byte
           /\ IF r.ok
              THEN /\ items' = Append(items, r.value)
                   /\ i' = i + 1
                   /\ UNCHANGED <<log, pc>>
              ELSE /\ log' = Append(log, [index |-> i + 1, err |-> r.err,
                                          offset |-> r.offset])
                   /\ pc' = "break"
                   /\ UNCHANGED <<items, i>>
    /\ attempts' = attempts + 1
    /\ UNCHANGED <<twoVars, withVars, toolVars>>
    /\ UNCHANGED <<b64_string, data, version, num_items, raised, last, origin>>

\* The loop body logging the 0-based index i.
LoopItemZeroBased ==
    /\ pc = "loop"
    /\ i < num_items
    /\ LET r == ReadItem(data, offset, unknown_data, unknown_byte)
       IN  /\ offset' = r.offset
           /\ unknown_data' = r.unknown_data
           /\ unknown_byte' = r.unknown_byte
           /\ IF r.ok
              THEN /\ items' = Append(items, r.value)
                   /\ i' = i + 1
                   /\ UNCHANGED <<log, pc>>
              ELSE /\ log' = Append(log, [index |-> i, err |-> r.err,
                                          offset |-> r.offset])
                   /\ pc' = "break"
                   /\ UNCHANGED <<items, i>>
    /\ attempts' = attempts + 1
    /\ UNCHANGED <<twoVars, withVars, toolVars>>
    /\ UNCHANGED <<b64_string, data, version, num_items, raised, last, origin>>

\* One iteration of `for i in range(num_items)`: read_item in a try; on an
\* exception one logger.error call with i + 1 and reader.offset, and break.
LoopItem ==
    /\ pc = "loop"
    /\ i < num_items
    /\ LET r == ReadItem(data, offset, unknown_data, unknown_byte)
       IN  /\ offset' = r.offset
           /\ unknown_data' = r.unknown_data
           /\ unknown_byte' = r.unknown_byte
           /\ IF r.ok
              THEN /\ items' = Append(items, r.value)
                   /\ i' = i + 1
                   /\ UNCHANGED <<log, pc>>
              ELSE /\ log' = Append(log, [index |-> i + 1, err |-> r.err,
                                          offset |-> r.offset])
                   /\ pc' = "break"
                   /\ UNCHANGED <<items, i>>
    /\ attempts' = attempts + 1
    /\ UNCHANGED <<twoVars, withVars, toolVars>>
    /\ UNCHANGED <<b64_string, data, version, num_items, raised, last, origin>>

\* return items, when the range is exhausted or after break.
Return ==
    /\ \/ pc = "loop" /\ i >= num_items
       \/ pc = "break"
    /\ pc' = "done"
    /\ UNCHANGED <<twoVars, withVars, toolVars>>
    /\ UNCHANGED <<b64_string, data, offset, unknown_data, unknown_byte,
                   version, num_items, i, items, raised, log, attempts,
                   last, origin>>

Next == Decode \/ ReadVersion \/ ReadNumItems \/ LoopItem \/ Return

Spec == Init /\ [][Next]_vars

(***************************************************************************)
(* Two calls of parse_items_from_base64 in flight at once, their steps     *)
(* interleaved in any order.  Each call has its own frame: its argument    *)
(* and its locals data, reader (offset, unknown_data, unknown_byte),       *)
(* version, num_items, items, the loop index i, and what it passed to      *)
(* logger.error.  The module-level logger is the one object both calls     *)
(* reach: `handler` is the sequence of records it has received, each       *)
(* tagged with the thread that logged it.                                  *)
(***************************************************************************)
Threads == {1, 2}

\* The frame of a call parse_items_from_base64(text) before its first
\* statement.
ParseCall(text) ==
    [b64_string |-> text, data |-> <<>>, offset |-> 0,
     unknown_data |-> NoData, unknown_byte |-> NoByte, pc |-> "start",
     version |-> 0, num_items |-> 0, i |-> 0, items |-> <<>>,
     raised |-> "none", log |-> <<>>]

\* data = base64.b64decode(b64_string); reader = ValheimItemReader(data)
FrameDecode(c) ==
    LET r == B64Decode(c.b64_string)
    IN  IF r.ok
        THEN [c EXCEPT !.data = r.bytes, !.offset = 0, !.pc = "read_version"]
        ELSE [c EXCEPT !.raised = r.err, !.pc = "raised"]

\* version = reader.read_int32(), then `if version != 1: raise ValueError`.
FrameReadVersionChecked(c) ==
    LET r == ReadInt32(c.data, c.offset)
    IN  IF r.ok /\ r.value = 1
        THEN [c EXCEPT !.offset = r.offset, !.version = r.value,
                       !.pc = "read_num_items"]
        ELSE [c EXCEPT !.offset = r.offset,
                       !.raised = IF r.ok THEN "ValueError" ELSE r.err,
                       !.pc = "raised"]

\* version = reader.read_int32(): read, and not looked at again.
FrameReadVersion(c) ==
    LET r == ReadInt32(c.data, c.offset)
    IN  IF r.ok
        THEN [c EXCEPT !.offset = r.offset, !.version = r.value,
                       !.pc = "read_num_items"]
        ELSE [c EXCEPT !.offset = r.offset, !.raised = r.err, !.pc = "raised"]

\* num_items = reader.read_int32(); items = []
FrameReadNumItems(c) ==
    LET r == ReadInt32(c.data, c.offset)
    IN  IF r.ok
        THEN [c EXCEPT !.offset = r.offset, !.num_items = r.value,
                       !.pc = "loop"]
        ELSE [c EXCEPT !.offset = r.offset, !.raised = r.err, !.pc = "raised"]

\* One iteration of the loop: read_item in a try, logger.error and break
\* on an exception.
FrameLoopItem(c) ==
    LET r == ReadItem(c.data, c.offset, c.unknown_data, c.unknown_byte)
    IN  IF r.ok
        THEN [c EXCEPT !.offset = r.offset, !.unknown_data = r.unknown_data,
                       !.unknown_byte = r.unknown_byte,
                       !.items = Append(c.items, r.value), !.i = c.i + 1]
        ELSE [c EXCEPT !.offset = r.offset, !.unknown_data = r.unknown_data,
                       !.unknown_byte = r.unknown_byte,
                       !.log = Append(c.log, [index |-> c.i + 1, err |-> r.err,
                                              offset |-> r.offset]),
                       !.pc = "break"]

\* return items
FrameReturn(c) == [c EXCEPT !.pc = "done"]

\* The call has returned or raised.
Finished(c) == c.pc \in {"done", "raised"}

\* The next statement of the call.
FrameStep(c) ==
    IF c.pc = "start" THEN FrameDecode(c)
    ELSE IF c.pc = "read_version" THEN FrameReadVersion(c)
    ELSE IF c.pc = "read_num_items" THEN FrameReadNumItems(c)
    ELSE IF c.pc = "loop" /\ c.i < c.num_items THEN FrameLoopItem(c)
    ELSE IF c.pc \in {"loop", "break"} THEN FrameReturn(c)
    ELSE c

\* The inputs of the two calls: no record, one record or two, the count
\* right or one too many, either version, whole or damaged.
TwoRecSeqs == {<<>>, <<RecWood>>, <<RecSword, RecBow>>}
TwoDamages(rs, full) ==
    {NoDamage, [kind |-> "cut", at |-> 3], [kind |-> "cut", at |-> Len(full) - 1],
     [kind |-> "bang", at |-> 0]}
      \cup { [kind |-> "bad", at |-> j] : j \in 1..Min(Len(rs), 1) }
TwoOriginsOf(rs) ==
    UNION { { [kind |-> "parse", recs |-> rs, count |-> c, version |-> v,
               damage |-> dm] :
                dm \in TwoDamages(rs, EncodeEnvelope(v, c, rs)) } :
            c \in {Len(rs), Len(rs) + 1}, v \in Versions }
TwoOrigins == UNION { TwoOriginsOf(rs) : rs \in TwoRecSeqs }

\* The variables of a single call at rest.
IdleParse ==
    /\ origin = [kind |-> "none", recs |-> <<>>, count |-> 0, version |-> 0,
                 damage |-> NoDamage]
    /\ b64_string = <<>>
    /\ data = <<>>
    /\ offset = 0
    /\ unknown_data = NoData
    /\ unknown_byte = NoByte
    /\ pc = "idle"
    /\ version = 0
    /\ num_items = 0
    /\ i = 0
    /\ items = <<>>
    /\ raised = "none"
    /\ log = <<>>
    /\ attempts = 0
    /\ last = NoRead

InitTwo ==
    /\ \E o1 \in TwoOrigins, o2 \in TwoOrigins :
          calls = [t \in Threads |->
                     ParseCall(InputText(IF t = 1 THEN o1 ELSE o2))]
    /\ handler = <<>>
    /\ IdleParse
    /\ IdleWith
    /\ IdleTools

\* Thread t executes the next statement of its call, leaving its frame as
\* c; a record it passed to logger.error reaches the handler.
Advance(t, c) ==
    /\ calls' = [calls EXCEPT ![t] = c]
    /\ handler' = IF Len(c.log) > Len(calls[t].log)
                  THEN Append(handler, [thread |-> t, record |-> c.log[Len(c.log)]])
                  ELSE handler
    /\ UNCHANGED <<b64_string, data, offset, unknown_data, unknown_byte, pc,
                   version, num_items, i, items, raised, log, attempts, last,
                   origin, withVars, toolVars>>

TwoDecode(t) == calls[t].pc = "start" /\ Advance(t, FrameDecode(calls[t]))

TwoReadVersion(t) ==
    calls[t].pc = "read_version" /\ Advance(t, FrameReadVersion(calls[t]))

TwoReadNumItems(t) ==
    calls[t].pc = "read_num_items" /\ Advance(t, FrameReadNumItems(calls[t]))

\* One iteration of the loop, with the reader a module-level object that
\* both calls use: the other call's offset follows this one's.
TwoLoopItemSharedReader(t) ==
    /\ calls[t].pc = "loop"
    /\ calls[t].i < calls[t].num_items
    /\ LET c == FrameLoopItem(calls[t])
       IN  /\ calls' = [u \in Threads |->
                          IF u = t THEN c
                          ELSE [calls[u] EXCEPT !.offset = c.offset]]
           /\ handler' = IF Len(c.log) > Len(calls[t].log)
                         THEN Append(handler, [thread |-> t,
                                               record |-> c.log[Len(c.log)]])
                         ELSE handler
    /\ UNCHANGED <<b64_string, data, offset, unknown_data, unknown_byte, pc,
                   version, num_items, i, items, raised, log, attempts, last,
                   origin, withVars, toolVars>>

TwoLoopItem(t) ==
    /\ calls[t].pc = "loop"
    /\ calls[t].i < calls[t].num_items
    /\ Advance(t, FrameLoopItem(calls[t]))

TwoReturn(t) ==
    /\ \/ calls[t].pc = "loop" /\ calls[t].i >= calls[t].num_items
       \/ calls[t].pc = "break"
    /\ Advance(t, FrameReturn(calls[t]))

NextTwo ==
    \E t \in Threads :
       \/ TwoDecode(t) \/ TwoReadVersion(t) \/ TwoReadNumItems(t)
       \/ TwoLoopItem(t) \/ TwoReturn(t)

SpecTwo == InitTwo /\ [][NextTwo]_vars

(***************************************************************************)
(* SaveFileProcessor (wrapper.py): processor = vst.process("world.db"),    *)
(* then builder calls, save(), and a with block around the processor.      *)
(*                                                                         *)
(* A path is [dir, name]: dir 0 is the caller's directory, dir d > 0 the   *)
(* d-th directory made by tempfile.mkdtemp.  `files` maps each existing    *)
(* file to its contents, `dirs` is the set of existing temp directories.   *)
(* The contents of a save file are the operations the external program has *)
(* applied to the original, in order.  `commands` lists the external       *)
(* commands run and `copies` the shutil.copy2 calls made.  wpc is          *)
(* "created" before the with block, "body" inside it and "exited" after    *)
(* __exit__; exc is the exception in flight.                               *)
(***************************************************************************)
Join(d, name) == [dir |-> d, name |-> name]
Basename(p) == p.name

InputFile == Join(0, "world.db")
OutputFile == Join(0, "output.db")

OutputJson == Join(0, "output.json")

\* output_file = None
NoPath == Join(-1, "")

\* The file that tempfile.NamedTemporaryFile(delete=False, suffix=...)
\* makes in the system temp directory when n - 1 names were generated
\* before: directory number -1 - n stands for the n-th generated name.
\* In the name "tmp" stands for the random part.
TempFile(n, suffix) ==
    Join(-1 - n, CASE suffix = ".json" -> "tmp.json"
                   [] suffix = ".db" -> "tmp.db"
                   [] suffix = ".fwl" -> "tmp.fwl"
                   [] suffix = ".fch" -> "tmp.fch"
                   [] OTHER -> "tmp")

\* The conversion command of to_json, and a document that json.load
\* rejects.
ConvertOp == [name |-> "to_json", arg |-> ""]
Garbage == << [name |-> "garbage", arg |-> ""] >>

\* The arguments the builder methods are called with, as the text that the
\* command line receives.
Thresholds == {"25"}
Keys == {"defeated_gdking"}

\* fl with the contents c at path p (shutil.copy2 creates or overwrites).
WriteFile(fl, p, c) ==
    [q \in (DOMAIN fl) \cup {p} |-> IF q = p THEN c ELSE fl[q]]

\* The ways one pass over the queue on `file` can go: the number of
\* leading operations whose command succeeds.  The external program fails
\* on a file that does not exist.
Succeeding(fl, file) ==
    IF file \in DOMAIN fl THEN 0..Len(_operations) ELSE {0}

\* The pass over the queue taking the operations from the last queued to
\* the first.
QueueRunReversed(file, k) ==
    [j \in 1..Min(k + 1, Len(_operations)) |->
       [op |-> _operations[Len(_operations) + 1 - j], file |-> file,
        ok |-> j <= k]]

\* The commands of a pass over the queue on `file` whose first k succeed:
\* the loop stops at the first CommandExecutionError.
QueueRun(file, k) ==
    [j \in 1..Min(k + 1, Len(_operations)) |->
       [op |-> _operations[j], file |-> file, ok |-> j <= k]]

\* The files after the first k queued operations were applied to `file`.
QueueApplied(fl, file, k) ==
    IF k = 0 THEN fl
    ELSE [fl EXCEPT ![file] = @ \o SubSeq(_operations, 1, k)]

\* _cleanup_temp_files: os.remove for every temp file that exists, then
\* os.rmdir of self._temp_dir if it is set, exists and is empty.
CleanupTempFiles(fl, ds, tfs, td) ==
    LET gone == { tfs[j] : j \in 1..Len(tfs) }
        fl2 == [p \in (DOMAIN fl) \ gone |-> fl[p]]
    IN  [files |-> fl2,
         dirs |-> IF td # 0 /\ td \in ds /\ ~(\E p \in DOMAIN fl2 : p.dir = td)
                  THEN ds \ {td} ELSE ds]

\* After SaveFileProcessor.__init__(tools, "world.db").
InitWith ==
    /\ files = [p \in {InputFile} |-> <<>>]
    /\ dirs = {}
    /\ made = 0
    /\ _current_file = InputFile
    /\ _operations = <<>>
    /\ _temp_files = <<>>
    /\ _temp_dir = 0
    /\ _in_context = FALSE
    /\ wpc = "created"
    /\ exc = "none"
    /\ commands = <<>>
    /\ copies = <<>>
    /\ saves = 0
    /\ result = <<>>
    /\ IdleParse
    /\ IdleTwo
    /\ IdleTools

\* A builder method: self._operations.append((name, kwargs)); return self
Queue(op) ==
    /\ wpc \in {"created", "body"}
    /\ exc = "none"
    /\ Len(_operations) < MaxOps
    /\ _operations' = Append(_operations, op)
    /\ UNCHANGED <<files, dirs, made, _current_file, _temp_files, _temp_dir,
                   _in_context, wpc, exc, commands, copies, saves, result>>
    /\ UNCHANGED <<parseVars, twoVars, toolVars>>

CleanStructures(threshold) ==
    Queue([name |-> "clean_structures", arg |-> threshold])
ResetWorld == Queue([name |-> "reset_world", arg |-> ""])
AddGlobalKey(key) == Queue([name |-> "add_global_key", arg |-> key])
RemoveGlobalKey(key) == Queue([name |-> "remove_global_key", arg |-> key])
ClearAllGlobalKeys == Queue([name |-> "clear_all_global_keys", arg |-> ""])

\* __enter__: a temp directory, a working copy of the input file in it.
Enter ==
    /\ wpc = "created"
    /\ exc = "none"
    /\ LET d == made + 1
           working_file == Join(d, Basename(InputFile))
       IN  /\ made' = d
           /\ dirs' = dirs \cup {d}
           /\ _temp_dir' = d
           /\ files' = WriteFile(files, working_file, files[InputFile])
           /\ copies' = Append(copies, [src |-> InputFile, dst |-> working_file])
           /\ _current_file' = working_file
           /\ _temp_files' = Append(_temp_files, working_file)
    /\ _in_context' = TRUE
    /\ wpc' = "body"
    /\ UNCHANGED <<_operations, exc, commands, saves, result>>
    /\ UNCHANGED <<parseVars, twoVars, toolVars>>

\* The body of the with block raises.
BodyRaise ==
    /\ wpc = "body"
    /\ exc = "none"
    /\ exc' = "ValueError"
    /\ UNCHANGED <<files, dirs, made, _current_file, _operations, _temp_files,
                   _temp_dir, _in_context, wpc, commands, copies, saves,
                   result>>
    /\ UNCHANGED <<parseVars, twoVars, toolVars>>

\* save(output_file) with the queued operations run on self._current_file
\* itself, no working copy made.
SaveInPlace(output_file) ==
    /\ wpc \in {"created", "body"}
    /\ exc = "none"
    /\ saves < MaxSaves
    /\ _current_file \in DOMAIN files
    /\ saves' = saves + 1
    /\ \E k \in Succeeding(files, _current_file) :
         LET f1 == QueueApplied(files, _current_file, k)
             final_output == IF output_file = NoPath THEN InputFile
                             ELSE output_file
             copied == _current_file # final_output
             f2 == IF copied
                   THEN WriteFile(f1, final_output, f1[_current_file])
                   ELSE f1
             c == CleanupTempFiles(f2, dirs, _temp_files, _temp_dir)
         IN  /\ commands' = commands \o QueueRun(_current_file, k)
             /\ IF k < Len(_operations)
                THEN /\ files' = f1
                     /\ exc' = "CommandExecutionError"
                     /\ UNCHANGED <<dirs, copies, result>>
                ELSE /\ files' = c.files
                     /\ dirs' = c.dirs
                     /\ result' = final_output
                     /\ copies' = IF copied
                                  THEN Append(copies, [src |-> _current_file,
                                                       dst |-> final_output])
                                  ELSE copies
                     /\ UNCHANGED exc
    /\ UNCHANGED <<made, _temp_files, _temp_dir, _current_file, _operations,
                   _in_context, wpc>>
    /\ UNCHANGED <<parseVars, twoVars, toolVars>>

\* save(output_file): _execute_operations (with a non-empty queue a new
\* temp directory, a working copy of self._current_file in it, every
\* queued operation on that copy), the copy to the destination, then
\* _cleanup_temp_files.  An exception leaves save before the cleanup.
Save(output_file) ==
    /\ wpc \in {"created", "body"}
    /\ exc = "none"
    /\ saves < MaxSaves
    /\ saves' = saves + 1
    /\ LET n == Len(_operations)
           d == made + 1
           working_file == Join(d, Basename(InputFile))
           final_output == IF output_file = NoPath THEN InputFile
                           ELSE output_file
       IN  IF n = 0
           THEN IF _current_file # final_output /\ _current_file \notin DOMAIN files
                THEN /\ exc' = "FileNotFoundError"
                     /\ UNCHANGED <<files, dirs, made, _temp_files, _temp_dir,
                                    commands, copies, result>>
                ELSE LET copied == _current_file # final_output
                         f1 == IF copied
                               THEN WriteFile(files, final_output,
                                              files[_current_file])
                               ELSE files
                         c == CleanupTempFiles(f1, dirs, _temp_files, _temp_dir)
                     IN  /\ files' = c.files
                         /\ dirs' = c.dirs
                         /\ copies' = IF copied
                                      THEN Append(copies, [src |-> _current_file,
                                                           dst |-> final_output])
                                      ELSE copies
                         /\ result' = final_output
                         /\ UNCHANGED <<made, _temp_files, _temp_dir, commands,
                                        exc>>
           ELSE IF _current_file \notin DOMAIN files
                THEN /\ made' = d
                     /\ dirs' = dirs \cup {d}
                     /\ _temp_dir' = d
                     /\ exc' = "FileNotFoundError"
                     /\ UNCHANGED <<files, _temp_files, commands, copies,
                                    result>>
                ELSE \E k \in 0..n :
                       LET f0 == WriteFile(files, working_file,
                                           files[_current_file])
                           f1 == QueueApplied(f0, working_file, k)
                           tfs == Append(_temp_files, working_file)
                           c == CleanupTempFiles(
                                   WriteFile(f1, final_output, f1[working_file]),
                                   dirs \cup {d}, tfs, d)
                       IN  /\ made' = d
                           /\ _temp_dir' = d
                           /\ _temp_files' = tfs
                           /\ commands' = commands \o QueueRun(working_file, k)
                           /\ IF k < n
                              THEN /\ files' = f1
                                   /\ dirs' = dirs \cup {d}
                                   /\ exc' = "CommandExecutionError"
                                   /\ UNCHANGED result
                                   /\ copies' = Append(copies,
                                          [src |-> _current_file,
                                           dst |-> working_file])
                              ELSE /\ files' = c.files
                                   /\ dirs' = c.dirs
                                   /\ UNCHANGED exc
                                   /\ result' = final_output
                                   /\ copies' = copies \o
                                        << [src |-> _current_file,
                                            dst |-> working_file],
                                           [src |-> working_file,
                                            dst |-> final_output] >>
    /\ UNCHANGED <<_current_file, _operations, _in_context, wpc>>
    /\ UNCHANGED <<parseVars, twoVars, toolVars>>

\* The ways _execute_operations can go: the number of leading operations
\* whose command succeeds.

\* _execute_operations when the first k commands succeed: with an empty
\* queue self._current_file is returned; otherwise mkdtemp, a working copy
\* of self._current_file, and the queue run on that copy.  The outcome
\* names the exception raised and the path returned.
ExecuteOperations(k) ==
    LET n == Len(_operations)
        d == made + 1
        working_file == Join(d, Basename(InputFile))
    IN  IF n = 0
        THEN [files |-> files, dirs |-> dirs, made |-> made,
              temp_files |-> _temp_files, temp_dir |-> _temp_dir,
              commands |-> commands, copies |-> copies, raised |-> "none",
              processed |-> _current_file]
        ELSE IF _current_file \notin DOMAIN files
        THEN [files |-> files, dirs |-> dirs \cup {d}, made |-> d,
              temp_files |-> _temp_files, temp_dir |-> d,
              commands |-> commands, copies |-> copies,
              raised |-> "FileNotFoundError", processed |-> NoPath]
        ELSE [files |-> QueueApplied(WriteFile(files, working_file,
                                               files[_current_file]),
                                     working_file, k),
              dirs |-> dirs \cup {d}, made |-> d,
              temp_files |-> Append(_temp_files, working_file),
              temp_dir |-> d,
              commands |-> commands \o QueueRun(working_file, k),
              copies |-> Append(copies, [src |-> _current_file,
                                         dst |-> working_file]),
              raised |-> IF k < n THEN "CommandExecutionError" ELSE "none",
              processed |-> working_file]

\* to_json(output_file): _execute_operations, the conversion of the
\* processed file by ValheimSaveTools.to_json (into a temporary .json file
\* when output_file is None), json.load of the output, then
\* _cleanup_temp_files.  The conversion command exits with 0 and a JSON
\* document ("ok"), with 0 and something else ("garbage"), or fails
\* ("fail").  An exception leaves to_json before the cleanup, and leaves
\* ValheimSaveTools.to_json before it removes its temporary file.
ToJson(output_file) ==
    /\ wpc \in {"created", "body"}
    /\ exc = "none"
    /\ saves < MaxSaves
    /\ saves' = saves + 1
    /\ \E k \in (IF _operations # <<>> /\ _current_file \in DOMAIN files
                 THEN 0..Len(_operations) ELSE {0}),
          outcome \in {"ok", "garbage", "fail"} :
         LET e == ExecuteOperations(k)
         IN  IF e.raised # "none"
             THEN /\ outcome = "ok"
                  /\ files' = e.files
                  /\ dirs' = e.dirs
                  /\ made' = e.made
                  /\ _temp_files' = e.temp_files
                  /\ _temp_dir' = e.temp_dir
                  /\ commands' = e.commands
                  /\ copies' = e.copies
                  /\ exc' = e.raised
                  /\ UNCHANGED result
             ELSE LET tmp_output == TempFile(e.made + 1, ".json")
                      temp == output_file = NoPath
                      output_path == IF temp THEN tmp_output ELSE output_file
                      f0 == IF temp THEN WriteFile(e.files, tmp_output, <<>>)
                            ELSE e.files
                      present == e.processed \in DOMAIN e.files
                      done == present /\ outcome # "fail"
                      document == IF outcome = "garbage" THEN Garbage
                                  ELSE Append(e.files[e.processed], ConvertOp)
                      f1 == IF done THEN WriteFile(f0, output_path, document)
                            ELSE f0
                      f2 == [p \in (DOMAIN f1) \ (IF temp THEN {tmp_output} ELSE {})
                               |-> f1[p]]
                      c == CleanupTempFiles(f2, e.dirs, e.temp_files, e.temp_dir)
                  IN  /\ present \/ outcome = "fail"
                      /\ made' = IF temp THEN e.made + 1 ELSE e.made
                      /\ _temp_files' = e.temp_files
                      /\ _temp_dir' = e.temp_dir
                      /\ commands' = Append(e.commands,
                                            [op |-> ConvertOp, file |-> e.processed,
                                             ok |-> done])
                      /\ copies' = e.copies
                      /\ IF done /\ outcome = "ok"
                         THEN /\ files' = c.files
                              /\ dirs' = c.dirs
                              /\ result' = document
                              /\ UNCHANGED exc
                         ELSE /\ files' = f1
                              /\ dirs' = e.dirs
                              /\ exc' = IF done THEN "JSONDecodeError"
                                        ELSE "CommandExecutionError"
                              /\ UNCHANGED result
    /\ UNCHANGED <<_current_file, _operations, _in_context, wpc>>
    /\ UNCHANGED <<parseVars, twoVars, toolVars>>

\* __exit__ with the copy back to the input file moved into the finally
\* clause.
ExitCopyInFinally ==
    /\ wpc = "body"
    /\ LET run == exc = "none" /\ _operations # <<>>
       IN  \E k \in (IF run THEN Succeeding(files, _current_file) ELSE {0}) :
             LET failed == run /\ k < Len(_operations)
                 f1 == IF run THEN QueueApplied(files, _current_file, k)
                       ELSE files
                 copied == _current_file \in DOMAIN f1
                 f2 == IF copied
                       THEN WriteFile(f1, InputFile, f1[_current_file])
                       ELSE f1
                 c == CleanupTempFiles(f2, dirs, _temp_files, _temp_dir)
             IN  /\ files' = c.files
                 /\ dirs' = c.dirs
                 /\ commands' = IF run
                                THEN commands \o QueueRun(_current_file, k)
                                ELSE commands
                 /\ copies' = IF copied
                              THEN Append(copies, [src |-> _current_file,
                                                   dst |-> InputFile])
                              ELSE copies
                 /\ exc' = IF failed THEN "CommandExecutionError" ELSE exc
    /\ _in_context' = FALSE
    /\ wpc' = "exited"
    /\ UNCHANGED <<made, _current_file, _operations, _temp_files, _temp_dir,
                   saves, result>>
    /\ UNCHANGED <<parseVars, twoVars, toolVars>>

\* __exit__(exc_type, exc_val, exc_tb): with no exception from the body
\* and a non-empty queue, every queued operation on self._current_file
\* and then the copy back to the input file; in the finally clause
\* _cleanup_temp_files.  The exception of a failed command, or the body's,
\* goes on to the caller.
Exit ==
    /\ wpc = "body"
    /\ LET run == exc = "none" /\ _operations # <<>>
       IN  \E k \in (IF run THEN Succeeding(files, _current_file) ELSE {0}) :
             LET failed == run /\ k < Len(_operations)
                 f1 == IF run THEN QueueApplied(files, _current_file, k)
                       ELSE files
                 copied == run /\ ~failed
                 f2 == IF copied
                       THEN WriteFile(f1, InputFile, f1[_current_file])
                       ELSE f1
                 c == CleanupTempFiles(f2, dirs, _temp_files, _temp_dir)
             IN  /\ files' = c.files
                 /\ dirs' = c.dirs
                 /\ commands' = IF run
                                THEN commands \o QueueRun(_current_file, k)
                                ELSE commands
                 /\ copies' = IF copied
                              THEN Append(copies, [src |-> _current_file,
                                                   dst |-> InputFile])
                              ELSE copies
                 /\ exc' = IF failed THEN "CommandExecutionError" ELSE exc
    /\ _in_context' = FALSE
    /\ wpc' = "exited"
    /\ UNCHANGED <<made, _current_file, _operations, _temp_files, _temp_dir,
                   saves, result>>
    /\ UNCHANGED <<parseVars, twoVars, toolVars>>

NextWith ==
    \/ \E threshold \in Thresholds : CleanStructures(threshold)
    \/ ResetWorld
    \/ \E key \in Keys : AddGlobalKey(key)
    \/ \E key \in Keys : RemoveGlobalKey(key)
    \/ ClearAllGlobalKeys
    \/ Enter
    \/ BodyRaise
    \/ \E output_file \in {NoPath, OutputFile} : Save(output_file)
    \/ \E output_file \in {NoPath, OutputJson} : ToJson(output_file)
    \/ Exit

SpecWith == InitWith /\ [][NextWith]_vars

(***************************************************************************)
(* A ValheimItemReader used directly: reader = ValheimItemReader(data),    *)
(* then any sequence of its read methods.  The buffer is a raw buffer, or  *)
(* the encoding of one record, whole or cut to a proper prefix.  `last`    *)
(* records the latest call: the method, whether it returned, the exception,*)
(* the offset before it and the value returned.                            *)
(***************************************************************************)
InitReader ==
    /\ \/ \E b \in RawBuffers :
            /\ origin = [kind |-> "raw", recs |-> <<>>, count |-> 0,
                         version |-> 0, damage |-> NoDamage]
            /\ data = b
       \/ \E r \in Records :
            \E dm \in {NoDamage} \cup BufferDamages(EncodeItem(r))
                        \cup EquipDamages :
               /\ origin = [kind |-> "record", recs |-> <<r>>, count |-> 1,
                            version |-> 0, damage |-> dm]
               /\ data = DamagedBytes(EncodeItem(r), <<r>>, dm)
    /\ b64_string = <<>>
    /\ offset = 0
    /\ unknown_data = NoData
    /\ unknown_byte = NoByte
    /\ pc = "reader"
    /\ version = 0
    /\ num_items = 0
    /\ i = 0
    /\ items = <<>>
    /\ raised = "none"
    /\ log = <<>>
    /\ attempts = 0
    /\ last = NoRead
    /\ IdleTwo
    /\ IdleWith
    /\ IdleTools

\* The effect on the reader of a call of the primitive read `op` whose
\* outcome is r.
Called(op, r) ==
    /\ pc = "reader"
    /\ offset' = r.offset
    /\ last' = [op |-> op, ok |-> r.ok, err |-> r.err, before |-> offset,
                value |-> r.value]
    /\ UNCHANGED <<twoVars, withVars, toolVars>>
    /\ UNCHANGED <<b64_string, data, unknown_data, unknown_byte, pc, version,
                   num_items, i, items, raised, log, attempts, origin>>

CallReadByte == Called("read_byte", ReadByte(data, offset))
CallReadInt32 == Called("read_int32", ReadInt32(data, offset))
CallReadInt64 == Called("read_int64", ReadInt64(data, offset))
CallReadFloat == Called("read_float", ReadFloat(data, offset))
CallReadBool == Called("read_bool", ReadBool(data, offset))
CallReadString == Called("read_string", ReadString(data, offset))

CallReadItem ==
    /\ pc = "reader"
    /\ LET r == ReadItem(data, offset, unknown_data, unknown_byte)
       IN  /\ offset' = r.offset
           /\ unknown_data' = r.unknown_data
           /\ unknown_byte' = r.unknown_byte
           /\ last' = [op |-> "read_item", ok |-> r.ok, err |-> r.err,
                       before |-> offset, value |-> r.value]
    /\ UNCHANGED <<twoVars, withVars, toolVars>>
    /\ UNCHANGED <<b64_string, data, pc, version, num_items, i, items, raised,
                   log, attempts, origin>>

NextReader ==
    \/ CallReadByte \/ CallReadInt32 \/ CallReadInt64 \/ CallReadFloat
    \/ CallReadBool \/ CallReadString \/ CallReadItem

SpecReader == InitReader /\ [][NextReader]_vars

(***************************************************************************)
(* The record layout, stated on the buffer by position: what the format    *)
(* says a buffer holds, independent of how the reader walks it.            *)
(***************************************************************************)
\* The w bytes of d that start at 0-based position a.
BytesAt(d, a, w) == SubSeq(d, a + 1, a + w)

\* The bytes between the name and the crafter-name length: 4+4+4+4+1+4+4+8.
FixedSize == 33

\* 0-based position of the crafter-name length byte of the record at p.
CrafterAt(d, p) == p + 1 + d[p + 1] + FixedSize

\* A whole record with valid UTF-8 strings lies in d at 0-based position p.
WellFormedAt(d, p) ==
    /\ p < Len(d)
    /\ CrafterAt(d, p) < Len(d)
    /\ CrafterAt(d, p) + 1 + d[CrafterAt(d, p) + 1] + 9 <= Len(d)
    /\ Utf8Decode(BytesAt(d, p + 1, d[p + 1])).ok
    /\ Utf8Decode(BytesAt(d, CrafterAt(d, p) + 1, d[CrafterAt(d, p) + 1])).ok

\* Position just past the record at p.
RecordEnd(d, p) == CrafterAt(d, p) + 1 + d[CrafterAt(d, p) + 1] + 9

\* The nine bytes that trail the record at p.
TrailingAt(d, p) == BytesAt(d, RecordEnd(d, p) - 9, 9)

\* The ten fields of the record at p.
RefItem(d, p) ==
    LET f == p + 1 + d[p + 1]
        q == CrafterAt(d, p)
    IN  [name |-> Utf8Decode(BytesAt(d, p + 1, d[p + 1])).text,
         stack |-> UnpackInt32(BytesAt(d, f, 4)),
         durability |-> UnpackFloat(BytesAt(d, f + 4, 4)),
         pos_x |-> UnpackInt32(BytesAt(d, f + 8, 4)),
         pos_y |-> UnpackInt32(BytesAt(d, f + 12, 4)),
         equipped |-> d[f + 17] # 0,
         quality |-> UnpackInt32(BytesAt(d, f + 17, 4)),
         variant |-> UnpackInt32(BytesAt(d, f + 21, 4)),
         crafter_id |-> UnpackInt64(BytesAt(d, f + 25, 8)),
         crafter_name |-> Utf8Decode(BytesAt(d, q + 1, d[q + 1])).text]

\* The longest run of at most c well-formed records from position p on.
RECURSIVE RefRecords(_, _, _)
RefRecords(d, p, c) ==
    IF c <= 0 \/ ~WellFormedAt(d, p) THEN <<>>
    ELSE << RefItem(d, p) >> \o RefRecords(d, RecordEnd(d, p), c - 1)

\* 0-based position of the j-th well-formed record after the header.
RECURSIVE RefStart(_, _)
RefStart(d, j) == IF j = 1 THEN 8 ELSE RecordEnd(d, RefStart(d, j - 1))

\* recordCount as the header of d states it.
HeaderCount(d) == UnpackInt32(BytesAt(d, 4, 4))

\* Text that is base64: alphabet characters only, in quads, the last quad
\* padded with at most two '='.
ValidBase64(t) ==
    /\ Len(t) % 4 = 0
    /\ \A k \in 1..Len(t) :
         \/ IsB64Char(t[k])
         \/ /\ t[k] = PadChar
            /\ k >= Len(t) - 1
            /\ t[Len(t)] = PadChar

\* The ten fields of a record value, as read_item returns them.
ItemOf(r) == [f \in DOMAIN r \ {"trailing"} |-> r[f]]

FieldNames == { ItemFields[k][1] : k \in 1..Len(ItemFields) }

\* A call of read_item at offset 0 has just been made.
ReadItemAtZero == last.op = "read_item" /\ last.before = 0

(***************************************************************************)
(* Claims                                                                  *)
(***************************************************************************)

\* C1: once the header has been read, parse_items_from_base64 returns the
\* longest run of at most max(recordCount, 0) well-formed records that the
\* buffer holds after the header, in order, without raising, and it makes
\* no read_item call after the first one that fails.
C1_PrefixDecode ==
    pc = "done" =>
      /\ raised = "none"
      /\ items = RefRecords(data, 8, HeaderCount(data))
      /\ attempts = Len(items)
                      + (IF Len(items) < Max(HeaderCount(data), 0) THEN 1 ELSE 0)

\* C1 witness: a decode that returned one record of the two or more the
\* header declared, stopped by a string that is not UTF-8.
C1_Witness ==
    /\ pc = "done"
    /\ Len(items) = 1
    /\ num_items >= 2
    /\ attempts = 2
    /\ Len(log) = 1
    /\ log[1].err = "UnicodeDecodeError"

\* C2: a call whose input text is valid base64 never raises.
C2_ValidBase64NeverRaises ==
    ValidBase64(b64_string) => pc # "raised"

\* C3: a call whose input text is not valid base64 raises in the decoding
\* step, before the header or any record is read.
C3_InvalidBase64Raises ==
    (~ValidBase64(b64_string) /\ pc # "start") =>
       /\ pc = "raised"
       /\ raised \in {"binascii.Error", "ValueError"}
       /\ offset = 0
       /\ attempts = 0

\* The bytes the read `op` needs at offset o of d: the width of a fixed
\* read, the length byte and the body it announces for a string.
Needed(op, d, o) ==
    CASE op \in {"read_byte", "read_bool"} -> 1
      [] op \in {"read_int32", "read_float"} -> 4
      [] op = "read_int64" -> 8
      [] op = "read_string" -> IF o < Len(d) THEN 1 + d[o + 1] ELSE 1

Primitives ==
    {"read_byte", "read_int32", "read_int64", "read_float", "read_bool",
     "read_string"}

\* C4: a primitive read called with fewer bytes remaining than it needs
\* raises and returns nothing.
C4_ShortReadFails ==
    (last.op \in Primitives
       /\ Len(data) - last.before < Needed(last.op, data, last.before))
      => ~last.ok

\* C5: the offset of a reader stays within its buffer after any sequence
\* of reads.
C5_OffsetInBounds == 0 <= offset /\ offset <= Len(data)

\* C6: read_item at offset 0 of a proper prefix of a record's encoding
\* raises and returns no item.
C6_NoPartialRecord ==
    (origin.kind = "record" /\ origin.damage.kind = "cut" /\ ReadItemAtZero)
      => (~last.ok /\ last.value = <<>>)

\* C6 witness: read_item has raised on a record cut inside the body of its
\* name, after read_string returned the part of the name that was there.
C6_Witness ==
    /\ origin.kind = "record"
    /\ origin.damage.kind = "cut"
    /\ origin.damage.at = 2
    /\ data[1] = 2
    /\ ReadItemAtZero
    /\ ~last.ok
    /\ last.err = "struct.error"
    /\ offset = 3

\* C7: every returned item has, as a field of its own, the nine bytes
\* that follow its crafter name in the buffer.
C7_TrailingCarried ==
    pc = "done" =>
      \A j \in 1..Len(items) :
         /\ DOMAIN items[j] \ FieldNames # {}
         /\ \E f \in DOMAIN items[j] \ FieldNames :
               items[j][f] = TrailingAt(data, RefStart(data, j))

\* C8: read_item at offset 0 of the encoding of a record value returns the
\* ten fields of that value and leaves offset at 44 plus the UTF-8 lengths
\* of the two strings.
C8_RoundTrip ==
    (origin.kind = "record" /\ origin.damage.kind = "none" /\ ReadItemAtZero)
      => /\ last.ok
         /\ last.value = ItemOf(origin.recs[1])
         /\ offset = 44 + Len(Utf8Encode(origin.recs[1].name))
                        + Len(Utf8Encode(origin.recs[1].crafter_name))
         /\ offset = Len(data)

\* C8 witness: the round trip of a record whose crafter name is one
\* character of four UTF-8 bytes.
C8_Witness ==
    /\ origin.kind = "record"
    /\ origin.damage.kind = "none"
    /\ origin.recs[1] = RecBow
    /\ ReadItemAtZero
    /\ last.ok
    /\ offset = 48

\* C9: k whole records after a header that declares k decode to k items,
\* the j-th equal to what read_item returns for the j-th record alone.
C9_OrderedRecords ==
    (origin.kind = "parse" /\ origin.damage.kind = "none"
       /\ origin.count = Len(origin.recs) /\ pc = "done")
      => /\ Len(items) = Len(origin.recs)
         /\ \A j \in 1..Len(items) :
               items[j] = ReadItem(EncodeItem(origin.recs[j]), 0,
                                   NoData, NoByte).value

\* C9 witness: two different records decoded, in source order.
C9_Witness ==
    /\ origin.kind = "parse"
    /\ origin.damage.kind = "none"
    /\ origin.recs = << RecSword, RecWood >>
    /\ origin.count = 2
    /\ pc = "done"
    /\ Len(items) = 2
    /\ items[1].name = RecSword.name
    /\ items[2].name = RecWood.name

\* The decoded buffer has a header whose recordCount is 0.
CountIsZero ==
    pc # "start" /\ Len(data) >= 8 /\ HeaderCount(data) = 0

\* C10: with recordCount = 0 the call makes no read_item call, does not
\* raise, and returns the empty sequence with the offset at 8.
C10_EmptyEnvelope ==
    CountIsZero =>
      /\ attempts = 0
      /\ items = <<>>
      /\ raised = "none"
      /\ pc \in {"read_version", "read_num_items", "loop", "done"}
      /\ pc = "done" => offset = 8

\* C10 witness: a returned call on a header with version 2 and count 0
\* that is followed by more bytes.
C10_Witness ==
    /\ CountIsZero
    /\ pc = "done"
    /\ version = 2
    /\ Len(data) > 8
    /\ items = <<>>

\* The decoded buffer has a header whose recordCount is negative.
CountIsNegative ==
    pc # "start" /\ Len(data) >= 8 /\ HeaderCount(data) < 0

\* C11: with a negative recordCount the call makes no read_item call, logs
\* nothing, does not raise, and returns the empty sequence.
C11_NegativeCount ==
    CountIsNegative =>
      /\ attempts = 0
      /\ items = <<>>
      /\ log = <<>>
      /\ raised = "none"
      /\ pc \in {"read_version", "read_num_items", "loop", "done"}

\* C11 witness: a returned call on a header with count -1 that is followed
\* by the bytes of a record.
C11_Witness ==
    /\ CountIsNegative
    /\ pc = "done"
    /\ num_items = -1
    /\ Len(data) > 8 + 44
    /\ items = <<>>

\* C12: a call reports at most one diagnostic; it reports one exactly when
\* a record that the header declares fails to decode, naming the 1-based
\* index of that record and the offset the reader was left at, and the
\* failure does not reach the caller.
C12_OneDiagnostic ==
    /\ Len(log) <= 1
    /\ log # <<>> =>
         /\ pc \in {"break", "done"}
         /\ raised = "none"
         /\ log[1].index = Len(items) + 1
         /\ log[1].index = Len(RefRecords(data, 8, HeaderCount(data))) + 1
         /\ log[1].offset = offset
    /\ pc = "done" =>
         (log # <<>> <=>
            Len(RefRecords(data, 8, HeaderCount(data)))
              < Max(HeaderCount(data), 0))

\* C12 witness: the second record failed, and the diagnostic names index 2
\* and an offset past the first record.
C12_Witness ==
    /\ pc = "done"
    /\ Len(log) = 1
    /\ log[1].index = 2
    /\ log[1].offset > 8 + 44
    /\ Len(items) = 1

\* The bytes a primitive read that returned has consumed.
Consumed(op, d, o) ==
    CASE op \in {"read_byte", "read_bool"} -> 1
      [] op \in {"read_int32", "read_float"} -> 4
      [] op = "read_int64" -> 8
      [] op = "read_string" -> 1 + d[o + 1]

C14_BoolRule ==
    /\ (last.op = "read_bool" /\ last.ok) =>
          /\ last.value = (data[last.before + 1] \in 1..255)
          /\ offset = last.before + 1
    /\ (origin.kind = "record" /\ origin.damage.kind \in {"none", "equip"}
          /\ ReadItemAtZero) =>
          /\ last.ok
          /\ last.value.equipped = (data[EquippedAt(data)] \in 1..255)

\* C14 witness: read_item has returned an equipped item from a record
\* whose equipped byte is 128.
C14_Witness ==
    /\ origin.kind = "record"
    /\ origin.damage = [kind |-> "equip", at |-> 128]
    /\ ReadItemAtZero
    /\ last.ok
    /\ last.value.equipped

\* C15: the value of read_int32 is the signed 32-bit integer whose
\* little-endian two's-complement bytes are the four bytes read, negative
\* exactly when the top bit of the last byte is set; the value of
\* read_int64 likewise for eight bytes (as 16-bit limbs, the top one
\* signed).
C15_TwosComplement ==
    /\ (last.op = "read_int32" /\ last.ok) =>
          /\ last.value >= -2147483647 - 1
          /\ last.value <= 2147483647
          /\ PackInt32(last.value) = BytesAt(data, last.before, 4)
          /\ (last.value < 0) = (data[last.before + 4] >= 128)
    /\ (last.op = "read_int64" /\ last.ok) =>
          /\ last.value[1] \in -32768..32767
          /\ \A k \in 2..4 : last.value[k] \in 0..65535
          /\ PackInt64(last.value) = BytesAt(data, last.before, 8)
          /\ (last.value[1] < 0) = (data[last.before + 8] >= 128)

\* C15 witness: read_int32 has returned a negative value other than -1.
C15_Witness ==
    /\ last.op = "read_int32"
    /\ last.ok
    /\ last.value < -1
    /\ data[last.before + 4] >= 128

\* C18: the offset of a reader is 0 when the reader is made, no read,
\* returning or raising, makes it smaller, and no read changes the buffer.
C18_OffsetMonotonic ==
    offset = 0 /\ [][offset' >= offset /\ data' = data]_vars

\* C18 witness: read_int32 has raised past the start of the buffer and
\* left the offset where it was.
C18_Witness ==
    /\ last.op = "read_int32"
    /\ ~last.ok
    /\ last.before > 0
    /\ offset = last.before

\* What a call gave its caller: the list returned, the exception raised,
\* the records logged.
Outcome(c) == [items |-> c.items, raised |-> c.raised, log |-> c.log]

\* The envelope that a call's argument encodes, when it is base64.
Envelope(c) == B64Decode(c.b64_string)

\* Two envelopes of one length that agree on every byte after the 4 bytes
\* of the version field.
SameButVersion(d1, d2) ==
    /\ Len(d1) = Len(d2)
    /\ \A k \in 5..Len(d1) : d1[k] = d2[k]

\* C16: two calls whose envelopes differ only in the 4 bytes of the version
\* field return the same list, raise the same exception and log the same
\* records.
C16_VersionIndependent ==
    ( /\ Finished(calls[1]) /\ Finished(calls[2])
      /\ Envelope(calls[1]).ok /\ Envelope(calls[2]).ok
      /\ SameButVersion(Envelope(calls[1]).bytes, Envelope(calls[2]).bytes) )
      => Outcome(calls[1]) = Outcome(calls[2])

\* Both calls have returned; their envelopes carry different versions and
\* are otherwise the same; a record was decoded and another was reported.
C16_Witness ==
    /\ calls[1].pc = "done" /\ calls[2].pc = "done"
    /\ calls[1].version = 1 /\ calls[2].version = 2
    /\ SameButVersion(calls[1].data, calls[2].data)
    /\ Len(calls[1].items) = 1 /\ Len(calls[2].items) = 1
    /\ Len(calls[1].log) = 1 /\ Len(calls[2].log) = 1

\* The frame in which a call ends when nothing else runs.
RECURSIVE RunAlone(_)
RunAlone(c) == IF Finished(c) THEN c ELSE RunAlone(FrameStep(c))

\* C17: however the steps of two calls are interleaved, each call is at
\* every moment where it would be running alone, and so ends with the
\* result of running alone.
C17_Interleaving ==
    \A t \in Threads :
       RunAlone(calls[t]) = RunAlone(ParseCall(calls[t].b64_string))

\* Two calls on different inputs, both in the middle of their loops with
\* one record decoded and one still to read.
C17_Witness ==
    /\ calls[1].b64_string # calls[2].b64_string
    /\ \A t \in Threads :
          /\ calls[t].pc = "loop"
          /\ calls[t].i = 1 /\ calls[t].num_items = 2
          /\ Len(calls[t].items) = 1
    /\ calls[1].offset # calls[2].offset

\* C19: once __exit__ has finished, the working copy that __enter__ made
\* (self._current_file) and the temp directory that holds it are gone.
C19_ExitCleansUp ==
    wpc = "exited"
      => (_current_file \notin DOMAIN files /\ _current_file.dir \notin dirs)

\* The commands that the step just taken ran.
RanNow == SubSeq(commands', Len(commands) + 1, Len(commands'))

\* C20: __exit__ copies the working copy over the input file exactly when
\* the body raised nothing, the queue is not empty and every queued
\* command succeeded; otherwise the input file keeps its contents, and in
\* every case the commands run are the queue in order up to and including
\* the first that failed.
C20_OverwriteOnlyOnSuccess ==
    [][ (wpc = "body" /\ wpc' = "exited")
          => LET good == /\ exc = "none"
                         /\ _operations # <<>>
                         /\ Len(RanNow) = Len(_operations)
                         /\ \A j \in 1..Len(RanNow) : RanNow[j].ok
                 wrote == Len(copies') > Len(copies)
             IN  /\ wrote <=> good
                 /\ wrote => /\ copies'[Len(copies')]
                                  = [src |-> _current_file, dst |-> InputFile]
                             /\ files'[InputFile]
                                  = files[_current_file] \o _operations
                 /\ ~wrote => files'[InputFile] = files[InputFile]
                 /\ exc # "none" => RanNow = <<>>
                 /\ \A j \in 1..Len(RanNow) :
                       /\ RanNow[j].op = _operations[j]
                       /\ RanNow[j].file = _current_file
                       /\ ~RanNow[j].ok => j = Len(RanNow)
                 /\ (exc' # "none") = (exc # "none" \/ (_operations # <<>> /\ ~good))
       ]_vars

\* The with block was left with two operations queued and both commands
\* succeeding: the input file holds the processed contents.
C20_Witness ==
    /\ wpc = "exited"
    /\ exc = "none"
    /\ Len(_operations) = 2
    /\ Len(commands) = 2
    /\ files[InputFile] = _operations
    /\ copies[Len(copies)] = [src |-> _current_file, dst |-> InputFile]

\* C28: a primitive read that raises leaves the offset where it was before
\* the call.
C28_FailedReadKeepsOffset ==
    (last.op \in Primitives /\ ~last.ok) => offset = last.before

\* The commands of queued operations that the step just taken ran (the
\* conversion command of to_json is not one of them).
IsOperation(c) == c.op # ConvertOp
OpsNow == SelectSeq(RanNow, IsOperation)

\* The step just taken is a call of save() or to_json(), or __exit__.
Executes == saves' = saves + 1 \/ (wpc = "body" /\ wpc' = "exited")

\* C21: a builder call only appends to the queue; commands run only in
\* save(), to_json() and __exit__, and the operation commands of such a
\* call are the queued operations from the first on, one command each, in
\* queue order, all on one working copy in a temp directory, stopping only
\* at a command that fails: the whole queue when the call raises nothing,
\* none when the queue is empty.
C21_QueueThenRun ==
    [][ /\ _operations' # _operations
          => /\ Len(_operations') = Len(_operations) + 1
             /\ SubSeq(_operations', 1, Len(_operations)) = _operations
             /\ UNCHANGED <<files, dirs, made, commands, copies, _current_file,
                            _temp_files, _temp_dir, wpc, exc>>
        /\ commands' # commands => Executes
        /\ Len(OpsNow) <= Len(_operations)
        /\ \A j \in 1..Len(OpsNow) :
              /\ OpsNow[j].op = _operations[j]
              /\ OpsNow[j].file = OpsNow[1].file
              /\ OpsNow[j].file.dir > 0
              /\ ~OpsNow[j].ok => j = Len(OpsNow)
        /\ (Executes /\ exc = "none" /\ exc' = "none")
              => Len(OpsNow) = Len(_operations)
      ]_vars

\* save() has returned after running two different queued operations, in
\* the order they were queued.
C21_Witness ==
    /\ wpc = "created"
    /\ saves = 1
    /\ exc = "none"
    /\ Len(_operations) = 2
    /\ _operations[1] # _operations[2]
    /\ Len(commands) = 2
    /\ \A j \in 1..2 : commands[j].op = _operations[j] /\ commands[j].ok
    /\ result = OutputFile

\* C22: a call of save that returns has written the input's contents with
\* every queued operation applied to the destination (output_file, or the
\* input file when there is none) and returns that path; a call with an
\* output_file other than the input path, returning or raising, leaves
\* the contents of the input file as they were.
C22_SaveDestination ==
    [][ \A output_file \in {NoPath, OutputFile} :
          Save(output_file)
            => LET final_output == IF output_file = NoPath THEN InputFile
                                   ELSE output_file
               IN  /\ exc' = "none"
                     => /\ result' = final_output
                        /\ files'[final_output]
                             = files[InputFile] \o _operations
                   /\ output_file # NoPath
                     => files'[InputFile] = files[InputFile]
      ]_vars

\* save("output.db") and then save() have returned on a processor with
\* one queued operation: both files hold the processed contents, the
\* second of them by the overwrite of the input file.
C22_Witness ==
    /\ wpc = "created"
    /\ saves = 2
    /\ exc = "none"
    /\ Len(_operations) = 1
    /\ result = InputFile
    /\ OutputFile \in DOMAIN files
    /\ files[OutputFile] = _operations
    /\ files[InputFile] = _operations
    /\ Len(commands) = 2

\* C29: the queue only grows, and every call of save() or to_json() on a
\* processor with queued operations runs the queue from its first
\* operation on a fresh copy of the input file's contents, to the end of
\* the queue or to the first command that fails.
C29_QueueRerun ==
    [][ /\ Len(_operations') >= Len(_operations)
        /\ SubSeq(_operations', 1, Len(_operations)) = _operations
        /\ (saves' = saves + 1 /\ _operations # <<>>)
             => /\ OpsNow # <<>>
                /\ OpsNow[1].op = _operations[1]
                /\ Len(OpsNow) = Len(_operations) \/ ~OpsNow[Len(OpsNow)].ok
                /\ Len(copies') > Len(copies)
                /\ copies'[Len(copies) + 1].dst = OpsNow[1].file
                /\ files[copies'[Len(copies) + 1].src] = files[InputFile]
      ]_vars

\* C30: outside a with block, after any call of save() or to_json(),
\* returned or raised, no temp directory of the processor and no working
\* copy in one exists.
C30_SaveCleansUp ==
    wpc = "created" => (dirs = {} /\ \A p \in DOMAIN files : p.dir <= 0)

(***************************************************************************)
(* ValheimSaveTools (wrapper.py): the methods called directly, one call    *)
(* after another, on paths and on file-like objects.                       *)
(*                                                                         *)
(* An argument is [kind, path, id]: kind "path" with a path of the         *)
(* caller's directory, kind "stream" with the id of a file-like object, or *)
(* kind "none" for output_file = None.  `streams` maps each file-like      *)
(* object to [content, pos].  `call` is the latest call: the method, its   *)
(* arguments, the exception message if it raised.  `files`, `made`,        *)
(* `commands`, `exc` and `result` are as for SaveFileProcessor; a command   *)
(* is recorded as [op, file, out, ok] with the input and output paths it   *)
(* was given.                                                              *)
(***************************************************************************)
PathArg(p) == [kind |-> "path", path |-> p, id |-> ""]
StreamArg(id) == [kind |-> "stream", path |-> NoPath, id |-> id]
NoArg == [kind |-> "none", path |-> NoPath, id |-> ""]

\* hasattr(obj, 'read')
_is_file_like(obj) == obj.kind = "stream"

\* Path(name).suffix
Suffix(name) ==
    CASE name \in {"world.db", "output.db", "tmp.db"} -> ".db"
      [] name = "WORLD.DB" -> ".DB"
      [] name \in {"world.fwl", "tmp.fwl"} -> ".fwl"
      [] name \in {"world.fch", "tmp.fch"} -> ".fch"
      [] name \in {"world.json", "output.json", "tmp.json"} -> ".json"
      [] name = "world.txt" -> ".txt"
      [] OTHER -> ""

\* str.lower() on a suffix
Lower(suffix) == IF suffix = ".DB" THEN ".db" ELSE suffix

\* is_db_file, is_fwl_file, is_fch_file, is_json_file:
\* Path(file_path).suffix.lower() == ext
is_file_of(p, ext) == Lower(Suffix(p.name)) = ext
is_db_file(p) == is_file_of(p, ".db")

\* The state the methods work on.
Cur == [files |-> files, streams |-> streams, made |-> made,
        commands |-> commands]

\* os.remove(p) if os.path.exists(p)
RemoveFile(st, p) ==
    [st EXCEPT !.files = [q \in (DOMAIN st.files) \ {p} |-> st.files[q]]]

\* tempfile.NamedTemporaryFile(delete=False, suffix=suffix) with the
\* contents c written to it.
NewTemp(st, suffix, c) ==
    [st |-> [st EXCEPT !.files = WriteFile(st.files,
                                           TempFile(st.made + 1, suffix), c),
                       !.made = st.made + 1],
     path |-> TempFile(st.made + 1, suffix)]

\* obj.read(): the bytes from the current position to the end.
StreamRead(s) == SubSeq(s.content, s.pos + 1, Len(s.content))

\* obj.write(c) at the current position of a BytesIO.
StreamWrite(s, c) ==
    [content |-> SubSeq(s.content, 1, s.pos) \o c
                   \o SubSeq(s.content, s.pos + Len(c) + 1, Len(s.content)),
     pos |-> s.pos + Len(c)]

\* obj.seek(0); obj.write(c); obj.truncate(): truncate cuts at the
\* position the write ended at.
StreamRewrite(s, c) ==
    LET w == StreamWrite([s EXCEPT !.pos = 0], c)
    IN  [w EXCEPT !.content = SubSeq(w.content, 1, w.pos)]

\* _resolve_input(input_source, suffix): a file-like object is read from
\* its current position into a new temp file and put back at that
\* position; a path is returned as it is.
_resolve_input(st, input_source, suffix) ==
    IF _is_file_like(input_source)
    THEN LET t == NewTemp(st, suffix, StreamRead(st.streams[input_source.id]))
         IN  [st |-> t.st, path |-> t.path, is_temp |-> TRUE]
    ELSE [st |-> st, path |-> input_source.path, is_temp |-> FALSE]

\* str(n) for the numbers that reach a message.
Str(n) ==
    CASE n = 0 -> "0" [] n = 1 -> "1" [] n = 2 -> "2" [] n = 25 -> "25"
      [] n = 30 -> "30"
      [] OTHER -> "?"

\* What subprocess.run does: the process exits with a return code and its
\* stderr, runs past the timeout, or cannot be started (OSError).
Exited(returncode, stderr) ==
    [kind |-> "exit", returncode |-> returncode, stderr |-> stderr]

\* run_command that raises on a non-zero exit code whatever `check` is.
RunCommandAlwaysChecked(check, timeout, outcome) ==
    CASE outcome.kind = "timeout" ->
           [raised |-> "CommandExecutionError",
            message |-> <<"Command timed out after ", Str(timeout), "s">>,
            returncode |-> -1]
      [] outcome.kind = "oserror" ->
           [raised |-> "CommandExecutionError",
            message |-> <<"Command failed: ", "[Errno 2] No such file">>,
            returncode |-> -1]
      [] outcome.kind = "exit" /\ outcome.returncode # 0 ->
           [raised |-> "CommandExecutionError",
            message |-> <<"Command failed: ", "Command failed (exit ",
                          Str(outcome.returncode), "): ", outcome.stderr>>,
            returncode |-> -1]
      [] OTHER ->
           [raised |-> "none", message |-> << >>,
            returncode |-> outcome.returncode]

\* run_command(*args, check, timeout): [raised, message, returncode], the
\* exception raised with the parts of its message, or the return code of
\* the CompletedProcess returned.  The CommandExecutionError raised inside
\* the try block for a non-zero exit code is caught by `except Exception`
\* and raised again with its message prefixed.
run_command(check, timeout, outcome) ==
    CASE outcome.kind = "timeout" ->
           [raised |-> "CommandExecutionError",
            message |-> <<"Command timed out after ", Str(timeout), "s">>,
            returncode |-> -1]
      [] outcome.kind = "oserror" ->
           [raised |-> "CommandExecutionError",
            message |-> <<"Command failed: ", "[Errno 2] No such file">>,
            returncode |-> -1]
      [] outcome.kind = "exit" /\ check /\ outcome.returncode # 0 ->
           [raised |-> "CommandExecutionError",
            message |-> <<"Command failed: ", "Command failed (exit ",
                          Str(outcome.returncode), "): ", outcome.stderr>>,
            returncode |-> -1]
      [] OTHER ->
           [raised |-> "none", message |-> << >>,
            returncode |-> outcome.returncode]

\* What a method call comes to: the state it leaves, the exception it
\* raised with its message, and the value it returned.
CallReturned(st, value) ==
    [st |-> st, raised |-> "none", message |-> << >>, value |-> value]
CallRaised(st, error, message) ==
    [st |-> st, raised |-> error, message |-> message, value |-> NoArg]

\* The finally clause of every method: the temp copy of a file-like input
\* is removed, however the call ends.
Finally(r, path, is_temp) ==
    IF is_temp THEN [r EXCEPT !.st = RemoveFile(r.st, path)] ELSE r

\* The external program run through run_command(input, output, ...) with
\* check=True and timeout=None: it exits non-zero when its input file does
\* not exist; when it succeeds the output file holds the input with op
\* applied to it, or, when it goes wrong, something else.
RunTool(st, input_path, output_path, op, outcome, right) ==
    LET actual == IF input_path \in DOMAIN st.files THEN outcome
                  ELSE Exited(1, "No such file")
        r == run_command(TRUE, 0, actual)
        ok == r.raised = "none"
        f1 == IF ok /\ output_path # NoPath
              THEN WriteFile(st.files, output_path,
                             IF right THEN Append(st.files[input_path], op)
                             ELSE Garbage)
              ELSE st.files
    IN  [st |-> [st EXCEPT !.files = f1,
                           !.commands = Append(st.commands,
                                               [op |-> op, file |-> input_path,
                                                out |-> output_path, ok |-> ok])],
         r |-> r]

\* The shared body with the in-place rewrite of a file-like input left
\* without its truncate().
ModifyBodyNoTruncate(st, db_file, db_path, output_file, op, outcome) ==
    LET output_is_temp == IF output_file.kind = "none"
                          THEN _is_file_like(db_file)
                          ELSE _is_file_like(output_file)
        t == NewTemp(st, ".db", << >>)
        s1 == IF output_is_temp THEN t.st ELSE st
        output_path == IF output_is_temp THEN t.path
                       ELSE IF output_file.kind = "none" THEN db_path
                       ELSE output_file.path
        c == RunTool(s1, db_path, output_path, op, outcome, TRUE)
    IN  IF c.r.raised # "none"
        THEN CallRaised(c.st, c.r.raised, c.r.message)
        ELSE LET bytes == c.st.files[output_path]
                 s2 == IF output_file.kind # "none" /\ _is_file_like(output_file)
                       THEN [c.st EXCEPT !.streams[output_file.id] =
                                            StreamWrite(@, bytes)]
                       ELSE IF _is_file_like(db_file) /\ output_file.kind = "none"
                       THEN [c.st EXCEPT !.streams[db_file.id] =
                               StreamWrite([@ EXCEPT !.pos = 0], bytes)]
                       ELSE c.st
                 value == IF _is_file_like(output_file)
                             \/ (_is_file_like(db_file) /\ output_file.kind = "none")
                          THEN NoArg
                          ELSE PathArg(output_path)
                 s3 == IF output_is_temp THEN RemoveFile(s2, output_path) ELSE s2
             IN  CallReturned(s3, value)

\* The body shared by add_global_key, remove_global_key, clean_structures
\* and reset_world once db_path is validated: choose the output path, run
\* the command, deliver the output, remove the temp output.
ModifyBody(st, db_file, db_path, output_file, op, outcome) ==
    LET output_is_temp == IF output_file.kind = "none"
                          THEN _is_file_like(db_file)
                          ELSE _is_file_like(output_file)
        t == NewTemp(st, ".db", << >>)
        s1 == IF output_is_temp THEN t.st ELSE st
        output_path == IF output_is_temp THEN t.path
                       ELSE IF output_file.kind = "none" THEN db_path
                       ELSE output_file.path
        c == RunTool(s1, db_path, output_path, op, outcome, TRUE)
    IN  IF c.r.raised # "none"
        THEN CallRaised(c.st, c.r.raised, c.r.message)
        ELSE LET bytes == c.st.files[output_path]
                 s2 == IF output_file.kind # "none" /\ _is_file_like(output_file)
                       THEN [c.st EXCEPT !.streams[output_file.id] =
                                            StreamWrite(@, bytes)]
                       ELSE IF _is_file_like(db_file) /\ output_file.kind = "none"
                       THEN [c.st EXCEPT !.streams[db_file.id] =
                               StreamRewrite(@, bytes)]
                       ELSE c.st
                 value == IF _is_file_like(output_file)
                             \/ (_is_file_like(db_file) /\ output_file.kind = "none")
                          THEN NoArg
                          ELSE PathArg(output_path)
                 s3 == IF output_is_temp THEN RemoveFile(s2, output_path) ELSE s2
             IN  CallReturned(s3, value)

\* The methods with the file-type check placed after the command.
ModifyCheckedLate(st, db_file, output_file, op, outcome) ==
    LET ri == _resolve_input(st, db_file, ".db")
        b == ModifyBody(ri.st, db_file, ri.path, output_file, op, outcome)
    IN  Finally(IF ~_is_file_like(db_file) /\ ~is_db_file(ri.path)
                THEN CallRaised(b.st, "ValueError", <<"Input file is not a valid .db file">>)
                ELSE b,
                ri.path, ri.is_temp)

\* add_global_key, remove_global_key and clean_structures, which differ in
\* the command (op) only.
Modify(st, db_file, output_file, op, outcome) ==
    LET ri == _resolve_input(st, db_file, ".db")
    IN  Finally(IF ~_is_file_like(db_file) /\ ~is_db_file(ri.path)
                THEN CallRaised(ri.st, "ValueError",
                            <<"Input file is not a valid .db file">>)
                ELSE ModifyBody(ri.st, db_file, ri.path, output_file, op, outcome),
                ri.path, ri.is_temp)

clean_structures(st, db_file, output_file, threshold, outcome) ==
    Modify(st, db_file, output_file,
           [name |-> "clean_structures", arg |-> Str(threshold)], outcome)

\* reset_world that resets first and cleans afterwards.
reset_world_then_clean(st, db_file, output_file, clean_first, t, co, outcome) ==
    LET ri == _resolve_input(st, db_file, ".db")
        reset == ModifyBody(ri.st, db_file, ri.path, output_file,
                            [name |-> "reset_world", arg |-> ""], outcome)
        cleaned == clean_structures(reset.st, PathArg(ri.path), PathArg(ri.path),
                                    t, co)
    IN  Finally(IF ~_is_file_like(db_file) /\ ~is_db_file(ri.path)
                THEN CallRaised(ri.st, "ValueError",
                            <<"Input file is not a valid .db file">>)
                ELSE IF clean_first /\ reset.raised = "none"
                THEN [reset EXCEPT !.st = cleaned.st]
                ELSE reset,
                ri.path, ri.is_temp)

\* reset_world(db_file, output_file, clean_first, clean_threshold): t is
\* clean_threshold, co what the clean command comes to.  With clean_first,
\* clean_structures(db_path, db_path, t) runs first and what it raises ends
\* the call.
reset_world(st, db_file, output_file, clean_first, t, co, outcome) ==
    LET ri == _resolve_input(st, db_file, ".db")
        cleaned == clean_structures(ri.st, PathArg(ri.path), PathArg(ri.path),
                                    t, co)
        s1 == IF clean_first THEN cleaned.st ELSE ri.st
        db_path == IF clean_first /\ cleaned.raised = "none"
                   THEN cleaned.value.path ELSE ri.path
    IN  Finally(IF ~_is_file_like(db_file) /\ ~is_db_file(ri.path)
                THEN CallRaised(ri.st, "ValueError",
                            <<"Input file is not a valid .db file">>)
                ELSE IF clean_first /\ cleaned.raised # "none"
                THEN cleaned
                ELSE ModifyBody(s1, db_file, db_path, output_file,
                                [name |-> "reset_world", arg |-> ""], outcome),
                ri.path, ri.is_temp)

\* to_json(input_file, output_file, input_file_type): `valid` tells whether
\* the program wrote a document json.load accepts.  The temp output file is
\* removed on the way to `return data` only.
to_json(st, input_file, output_file, input_file_type, outcome, valid) ==
    LET \* f".{input_file_type.lstrip('.')}"
        DotSuffix ==
            CASE input_file_type \in {"fwl", ".fwl"} -> ".fwl"
              [] input_file_type \in {"fch", ".fch"} -> ".fch"
              [] input_file_type \in {"db", ".db"} -> ".db"
              [] OTHER -> "."
        suffix == IF _is_file_like(input_file)
                  THEN (IF input_file_type # "" THEN DotSuffix
                        ELSE ".db")
                  ELSE (IF Suffix(input_file.path.name) # ""
                        THEN Suffix(input_file.path.name) ELSE ".db")
        ri == _resolve_input(st, input_file, suffix)
        input_path == ri.path
        temp == output_file.kind = "none" \/ _is_file_like(output_file)
        t == NewTemp(ri.st, ".json", << >>)
        s1 == IF temp THEN t.st ELSE ri.st
        output_path == IF temp THEN t.path ELSE output_file.path
        c == RunTool(s1, input_path, output_path, ConvertOp, outcome, valid)
        document == c.st.files[output_path]
        s2 == IF _is_file_like(output_file)
              THEN [c.st EXCEPT !.streams[output_file.id] =
                                   StreamWrite(@, document)]
              ELSE c.st
        s3 == IF temp THEN RemoveFile(s2, output_path) ELSE s2
    IN  Finally(IF ~_is_file_like(input_file)
                   /\ ~is_db_file(input_path)
                   /\ ~is_file_of(input_path, ".fwl")
                   /\ ~is_file_of(input_path, ".fch")
                THEN CallRaised(ri.st, "ValueError",
                            <<"Input file is not a valid Valheim save file">>)
                ELSE IF c.r.raised # "none"
                THEN CallRaised(c.st, c.r.raised, c.r.message)
                ELSE IF ~valid
                THEN CallRaised(c.st, "JSONDecodeError", <<"Expecting value">>)
                ELSE CallReturned(s3, document),
                input_path, ri.is_temp)

\* from_json(input_file, output_file)
from_json(st, input_file, output_file, outcome) ==
    LET \* Path(input_file).with_suffix(".db")
        _auto_output_path(p) ==
            Join(p.dir, CASE p.name = "tmp.json" -> "tmp.db"
                          [] p.name = "WORLD.DB" -> "WORLD.db"
                          [] OTHER -> "world.db")
        ri == _resolve_input(st, input_file, ".json")
        input_path == ri.path
        output_is_temp == _is_file_like(output_file)
        t == NewTemp(ri.st, ".db", << >>)
        s1 == IF output_is_temp THEN t.st ELSE ri.st
        output_path == IF output_file.kind = "none"
                       THEN _auto_output_path(input_path)
                       ELSE IF output_is_temp THEN t.path
                       ELSE output_file.path
        c == RunTool(s1, input_path, output_path, ConvertOp, outcome, TRUE)
        s2 == IF output_is_temp
              THEN RemoveFile([c.st EXCEPT !.streams[output_file.id] =
                                 StreamWrite(@, c.st.files[output_path])],
                              output_path)
              ELSE c.st
    IN  Finally(IF ~_is_file_like(input_file) /\ ~is_file_of(input_path, ".json")
                THEN CallRaised(ri.st, "ValueError",
                            <<"Input file is not a JSON file">>)
                ELSE IF c.r.raised # "none"
                THEN CallRaised(c.st, c.r.raised, c.r.message)
                ELSE CallReturned(s2, IF output_is_temp THEN NoArg
                                  ELSE PathArg(output_path)),
                input_path, ri.is_temp)

\* list_global_keys(db_file): the program prints `stdout`, a sequence of
\* lines.
list_global_keys(st, db_file, outcome, stdout) ==
    LET Strip(line) == CASE line = " defeated_gdking " -> "defeated_gdking"
                         [] line = "  " -> ""
                         [] OTHER -> line
        \* [line.strip() for line in stdout.splitlines() if line.strip()]
        keys == SelectSeq([j \in 1..Len(stdout) |-> Strip(stdout[j])],
                          LAMBDA line : line # "")
        ri == _resolve_input(st, db_file, ".db")
        c == RunTool(ri.st, ri.path, NoPath,
                     [name |-> "list_global_keys", arg |-> ""], outcome,
                     TRUE)
    IN  Finally(IF ~_is_file_like(db_file) /\ ~is_db_file(ri.path)
                THEN CallRaised(ri.st, "ValueError",
                            <<"Input file is not a valid .db file">>)
                ELSE IF c.r.raised # "none"
                THEN CallRaised(c.st, c.r.raised, c.r.message)
                ELSE CallReturned(c.st, keys),
                ri.path, ri.is_temp)


\* The files of the caller's directory and the arguments of the calls.
ToolNames == {"world.db", "WORLD.DB", "world.fwl", "world.fch", "world.json",
              "world.txt"}
InputArgs == {PathArg(Join(0, n)) : n \in ToolNames} \cup {StreamArg("in")}
OutputArgs == {NoArg, PathArg(OutputFile), StreamArg("out")}
ToolOutcomes == {Exited(0, ""), Exited(1, "boom")}
RunOutcomes ==
    {Exited(0, ""), Exited(1, "boom"), Exited(2, ""),
     [kind |-> "timeout", returncode |-> -1, stderr |-> ""],
     [kind |-> "oserror", returncode |-> -1, stderr |-> ""]}

\* timeout=None is 0.
Timeouts == {0, 30}
ToolThresholds == {25, 30}

\* The bytes a file-like object holds before the calls.
Old == [j \in 1..3 |-> [name |-> "old", arg |-> Str(j - 1)]]

InitTools ==
    /\ IdleParse
    /\ IdleTwo
    /\ files = [p \in {Join(0, n) : n \in ToolNames} |-> << >>]
    /\ dirs = {}
    /\ made = 0
    /\ _current_file = <<>>
    /\ _operations = <<>>
    /\ _temp_files = <<>>
    /\ _temp_dir = 0
    /\ _in_context = FALSE
    /\ wpc = "none"
    /\ exc = "none"
    /\ commands = <<>>
    /\ copies = <<>>
    /\ saves = 0
    /\ result = NoArg
    /\ \E a \in {[content |-> Old, pos |-> 0], [content |-> Old, pos |-> 2]},
          b \in {[content |-> << >>, pos |-> 0], [content |-> Old, pos |-> 1]} :
         streams = [id \in {"in", "out"} |-> IF id = "in" THEN a ELSE b]
    /\ call = <<>>
    /\ ncalls = 0

\* One call of a method that came to r: the state it left, the exception
\* the caller caught, the value it got.
Deliver(method, input, output, flag, r) ==
    /\ ncalls < MaxCalls
    /\ ncalls' = ncalls + 1
    /\ files' = r.st.files
    /\ streams' = r.st.streams
    /\ made' = r.st.made
    /\ commands' = r.st.commands
    /\ exc' = r.raised
    /\ result' = r.value
    /\ call' = [method |-> method, input |-> input, output |-> output,
                flag |-> flag, message |-> r.message]
    /\ UNCHANGED <<parseVars, twoVars, dirs, _current_file, _operations,
                   _temp_files, _temp_dir, _in_context, wpc, copies, saves>>

CallRunCommand(check, timeout, outcome) ==
    /\ outcome.kind = "timeout" => timeout # 0
    /\ LET r == run_command(check, timeout, outcome)
       IN  Deliver("run_command", NoArg, NoArg, check,
                   [st |-> [Cur EXCEPT !.commands =
                              Append(@, [op |-> [name |-> "run_command",
                                                 arg |-> ""],
                                         file |-> NoPath, out |-> NoPath,
                                         ok |-> r.raised = "none"])],
                    raised |-> r.raised, message |-> r.message,
                    value |-> r.returncode])

CallToJson(input_file, output_file, input_file_type, outcome, valid) ==
    Deliver("to_json", input_file, output_file, FALSE,
            to_json(Cur, input_file, output_file, input_file_type, outcome,
                    valid))

CallFromJson(input_file, output_file, outcome) ==
    Deliver("from_json", input_file, output_file, FALSE,
            from_json(Cur, input_file, output_file, outcome))

CallListGlobalKeys(db_file, outcome, stdout) ==
    Deliver("list_global_keys", db_file, NoArg, FALSE,
            list_global_keys(Cur, db_file, outcome, stdout))

CallAddGlobalKey(db_file, key, output_file, outcome) ==
    Deliver("add_global_key", db_file, output_file, FALSE,
            Modify(Cur, db_file, output_file,
                   [name |-> "add_global_key", arg |-> key], outcome))

CallRemoveGlobalKey(db_file, key, output_file, outcome) ==
    Deliver("remove_global_key", db_file, output_file, FALSE,
            Modify(Cur, db_file, output_file,
                   [name |-> "remove_global_key", arg |-> key], outcome))

\* clear_all_global_keys is remove_global_key(db_file, "all", output_file).
CallClearAllGlobalKeys(db_file, output_file, outcome) ==
    Deliver("clear_all_global_keys", db_file, output_file, FALSE,
            Modify(Cur, db_file, output_file,
                   [name |-> "remove_global_key", arg |-> "all"], outcome))

CallCleanStructures(db_file, output_file, threshold, outcome) ==
    Deliver("clean_structures", db_file, output_file, FALSE,
            clean_structures(Cur, db_file, output_file, threshold, outcome))

CallResetWorld(db_file, output_file, clean_first, t, co, outcome) ==
    Deliver("reset_world", db_file, output_file, clean_first,
            reset_world(Cur, db_file, output_file, clean_first, t, co, outcome))

\* process(input_file): SaveFileProcessor.__init__ checks the file type and
\* touches nothing.
CallProcess(input_file) ==
    Deliver("process", input_file, NoArg, FALSE,
            IF ~is_db_file(input_file.path)
            THEN CallRaised(Cur, "ValueError",
                            <<"Input file is not a valid .db file">>)
            ELSE CallReturned(Cur, input_file))

\* The arguments are those that reach the code: the type hint is read for
\* a file-like input only, the document only when the program succeeded,
\* the outcome of a command only when it runs.
NextTools ==
    \/ \E check \in BOOLEAN, timeout \in Timeouts, outcome \in RunOutcomes :
         CallRunCommand(check, timeout, outcome)
    \/ \E input_file \in InputArgs,
          output_file \in {NoArg, PathArg(OutputJson), StreamArg("out")},
          outcome \in ToolOutcomes :
         \E input_file_type \in (IF _is_file_like(input_file)
                                 THEN {"", "fwl"} ELSE {""}),
            valid \in (IF outcome = Exited(0, "") THEN BOOLEAN ELSE {TRUE}) :
           CallToJson(input_file, output_file, input_file_type, outcome, valid)
    \/ \E input_file \in InputArgs, output_file \in OutputArgs,
          outcome \in ToolOutcomes :
         CallFromJson(input_file, output_file, outcome)
    \/ \E db_file \in InputArgs, outcome \in ToolOutcomes,
          stdout \in {<< >>, <<"defeated_gdking", "  ", " defeated_gdking ">>} :
         CallListGlobalKeys(db_file, outcome, stdout)
    \/ \E db_file \in InputArgs, key \in Keys, output_file \in OutputArgs,
          outcome \in ToolOutcomes :
         CallAddGlobalKey(db_file, key, output_file, outcome)
    \/ \E db_file \in InputArgs, key \in Keys, output_file \in OutputArgs,
          outcome \in ToolOutcomes :
         CallRemoveGlobalKey(db_file, key, output_file, outcome)
    \/ \E db_file \in InputArgs, output_file \in OutputArgs,
          outcome \in ToolOutcomes :
         CallClearAllGlobalKeys(db_file, output_file, outcome)
    \/ \E db_file \in InputArgs, output_file \in OutputArgs,
          threshold \in ToolThresholds, outcome \in ToolOutcomes :
         CallCleanStructures(db_file, output_file, threshold, outcome)
    \/ \E db_file \in InputArgs, output_file \in OutputArgs,
          clean_first \in BOOLEAN, clean_threshold \in ToolThresholds :
         \E clean_outcome \in (IF clean_first THEN ToolOutcomes
                               ELSE {Exited(0, "")}) :
           \E outcome \in (IF clean_first /\ clean_outcome # Exited(0, "")
                           THEN {Exited(0, "")} ELSE ToolOutcomes) :
             CallResetWorld(db_file, output_file, clean_first,
                            clean_threshold, clean_outcome, outcome)
    \/ \E n \in ToolNames : CallProcess(PathArg(Join(0, n)))

SpecTools == InitTools /\ [][NextTools]_vars

\* The temp files tempfile made that still exist.
TempFilesLeft == {p \in DOMAIN files : p.dir < 0}

(***************************************************************************)
(* Claims about the methods of ValheimSaveTools.                           *)
(***************************************************************************)
Says(message, part) == \E j \in 1..Len(message) : message[j] = part

\* C24: run_command reports every failure as CommandExecutionError and
\* nothing else.  With check=True a non-zero exit code raises
\* CommandExecutionError whose message contains the process's stderr; a
\* timeout raises CommandExecutionError whose message says it timed out;
\* with check=False a non-zero exit code raises nothing and the completed
\* process, with its return code, is returned.
C24_RunCommandErrors ==
    [][\A check \in BOOLEAN, timeout \in Timeouts, outcome \in RunOutcomes :
         CallRunCommand(check, timeout, outcome) =>
           /\ exc' \in {"none", "CommandExecutionError"}
           /\ (outcome.kind = "exit" /\ outcome.returncode = 0) =>
                (exc' = "none" /\ result' = 0)
           /\ (outcome.kind = "exit" /\ outcome.returncode # 0 /\ check) =>
                /\ exc' = "CommandExecutionError"
                /\ Says(call'.message, outcome.stderr)
           /\ (outcome.kind = "exit" /\ outcome.returncode # 0 /\ ~check) =>
                (exc' = "none" /\ result' = outcome.returncode)
           /\ outcome.kind = "timeout" =>
                /\ exc' = "CommandExecutionError"
                /\ Says(call'.message, "Command timed out after ")
           /\ outcome.kind = "oserror" => exc' = "CommandExecutionError"
      ]_vars

\* A checked run_command whose process exited with 1 and "boom" on stderr
\* raised CommandExecutionError with "boom" in the message.
C24_Witness ==
    /\ ncalls > 0
    /\ call.method = "run_command"
    /\ call.flag
    /\ exc = "CommandExecutionError"
    /\ Says(call.message, "boom")
    /\ Says(call.message, "1")

\* The extension of a file name in lower case.
LowerExt(name) ==
    CASE name \in {"world.db", "WORLD.DB"} -> ".db"
      [] name = "world.fwl" -> ".fwl"
      [] name = "world.fch" -> ".fch"
      [] name = "world.json" -> ".json"
      [] OTHER -> ".txt"

\* The extension of name is wrong for the method.
WrongType(method, name) ==
    CASE method = "to_json" -> LowerExt(name) \notin {".db", ".fwl", ".fch"}
      [] method = "from_json" -> LowerExt(name) # ".json"
      [] OTHER -> LowerExt(name) # ".db"

\* C23: file-type validation precedes any command.  A call of to_json,
\* from_json, list_global_keys, add_global_key, remove_global_key,
\* clear_all_global_keys, clean_structures, reset_world or process() on a
\* path whose extension, compared case-insensitively, is wrong for the
\* method raises ValueError, runs no external command and creates or
\* modifies no file and no file-like object; on a path with the right
\* extension in either case the method goes on to run its command.
C23_ValidationFirst ==
    [][(ncalls' = ncalls + 1 /\ call'.method # "run_command"
          /\ call'.input.kind = "path") =>
         IF WrongType(call'.method, call'.input.path.name)
         THEN /\ exc' = "ValueError"
              /\ commands' = commands
              /\ files' = files
              /\ made' = made
              /\ streams' = streams
         ELSE call'.method # "process" => Len(commands') > Len(commands)
      ]_vars

\* reset_world("world.fch") raised ValueError, and nothing was run or made.
C23_Witness ==
    /\ ncalls > 0
    /\ call.method = "reset_world"
    /\ call.input = PathArg(Join(0, "world.fch"))
    /\ call.flag
    /\ exc = "ValueError"
    /\ commands = << >>
    /\ DOMAIN files = {Join(0, n) : n \in ToolNames}

\* The path a method works on: the path given, or the temp copy that the
\* next generated name goes to.
WorkingPath(db_file) ==
    IF db_file.kind = "path" THEN db_file.path ELSE TempFile(made + 1, ".db")

\* The bytes a method is given.
BytesGiven(db_file) ==
    IF db_file.kind = "path" THEN files[db_file.path]
    ELSE StreamRead(streams[db_file.id])

CleanCommand(t) == [name |-> "clean_structures", arg |-> Str(t)]
ResetCommand == [name |-> "reset_world", arg |-> ""]

\* C25: reset_world(db, clean_first=True, clean_threshold=t) on a valid
\* input runs exactly two commands in this order: the clean-structures
\* command with threshold t on the input file, in place, then the
\* reset-world command on the cleaned file, so that the output is the input
\* cleaned and then reset; if the clean command fails the reset command is
\* never run and the call raises.  With clean_first=False exactly one
\* command, the reset on the input file, runs.
C25_CleanThenReset ==
    [][\A db_file \in InputArgs, output_file \in OutputArgs,
          clean_first \in BOOLEAN, t \in ToolThresholds,
          clean_outcome \in ToolOutcomes, outcome \in ToolOutcomes :
         (/\ CallResetWorld(db_file, output_file, clean_first, t,
                            clean_outcome, outcome)
          /\ exc' # "ValueError") =>
           IF clean_first
           THEN /\ Len(RanNow) >= 1
                /\ RanNow[1].op = CleanCommand(t)
                /\ RanNow[1].file = WorkingPath(db_file)
                /\ RanNow[1].out = WorkingPath(db_file)
                /\ IF RanNow[1].ok
                   THEN /\ Len(RanNow) = 2
                        /\ RanNow[2].op = ResetCommand
                        /\ RanNow[2].file = WorkingPath(db_file)
                        /\ (RanNow[2].ok /\ output_file.kind = "path") =>
                             files'[output_file.path] =
                               BytesGiven(db_file)
                                 \o <<CleanCommand(t), ResetCommand>>
                   ELSE /\ Len(RanNow) = 1
                        /\ exc' = "CommandExecutionError"
           ELSE /\ Len(RanNow) = 1
                /\ RanNow[1].op = ResetCommand
                /\ RanNow[1].file = WorkingPath(db_file)
      ]_vars

\* reset_world("world.db", clean_first=True, clean_threshold=30) returned
\* after the clean command with threshold 30 and the reset command.
C25_Witness ==
    /\ ncalls > 0
    /\ call.method = "reset_world"
    /\ call.flag
    /\ call.input = PathArg(InputFile)
    /\ exc = "none"
    /\ Len(commands) = 2
    /\ commands[1].op = CleanCommand(30) /\ commands[1].ok
    /\ commands[2].op = ResetCommand /\ commands[2].ok
    /\ files[InputFile] = <<CleanCommand(30), ResetCommand>>

\* The destination rule for a call that was given db_file and output_file
\* and whose command produced `bytes`.
Delivered(db_file, output_file, bytes) ==
    /\ (db_file.kind = "path" /\ output_file.kind = "none") =>
         /\ files'[db_file.path] = bytes
         /\ result' = PathArg(db_file.path)
    /\ output_file.kind = "path" =>
         /\ files'[output_file.path] = bytes
         /\ result' = PathArg(output_file.path)
    /\ output_file.kind = "stream" =>
         /\ SubSeq(streams'[output_file.id].content,
                   streams[output_file.id].pos + 1,
                   streams[output_file.id].pos + Len(bytes)) = bytes
         /\ result' = NoArg
    /\ (db_file.kind = "stream" /\ output_file.kind = "none") =>
         /\ streams'[db_file.id].content = bytes
         /\ result' = NoArg

\* C26: the destination rule shared by add_global_key, remove_global_key
\* (and clear_all_global_keys), clean_structures and reset_world, for a
\* call that returns.  Path input and no output: the command writes over
\* the input path, which is returned.  Path output, any input: the result
\* is written to that path, which is returned.  File-like output, any
\* input: the result bytes are written to that object and None is
\* returned.  File-like input and no output: the input object holds exactly
\* the result bytes, written from position 0 and truncated to their length,
\* and None is returned.
C26_DestinationRule ==
    [][\A db_file \in InputArgs, output_file \in OutputArgs,
          outcome \in ToolOutcomes :
         /\ \A key \in Keys :
              (CallAddGlobalKey(db_file, key, output_file, outcome)
                 /\ exc' = "none") =>
                Delivered(db_file, output_file,
                          Append(BytesGiven(db_file),
                                 [name |-> "add_global_key", arg |-> key]))
         /\ \A key \in Keys :
              (CallRemoveGlobalKey(db_file, key, output_file, outcome)
                 /\ exc' = "none") =>
                Delivered(db_file, output_file,
                          Append(BytesGiven(db_file),
                                 [name |-> "remove_global_key", arg |-> key]))
         /\ (CallClearAllGlobalKeys(db_file, output_file, outcome)
               /\ exc' = "none") =>
              Delivered(db_file, output_file,
                        Append(BytesGiven(db_file),
                               [name |-> "remove_global_key", arg |-> "all"]))
         /\ \A t \in ToolThresholds :
              (CallCleanStructures(db_file, output_file, t, outcome)
                 /\ exc' = "none") =>
                Delivered(db_file, output_file,
                          Append(BytesGiven(db_file), CleanCommand(t)))
         /\ \A t \in ToolThresholds, clean_first \in BOOLEAN,
               clean_outcome \in ToolOutcomes :
              (CallResetWorld(db_file, output_file, clean_first, t,
                              clean_outcome, outcome)
                 /\ exc' = "none") =>
                Delivered(db_file, output_file,
                          BytesGiven(db_file)
                            \o (IF clean_first THEN <<CleanCommand(t)>>
                                ELSE << >>)
                            \o <<ResetCommand>>)
      ]_vars

\* add_global_key(bio, "defeated_gdking") on a three-byte object positioned
\* at 2 returned None and left the object holding the two result bytes.
C26_Witness ==
    /\ ncalls > 0
    /\ call.method = "add_global_key"
    /\ call.input = StreamArg("in")
    /\ call.output = NoArg
    /\ exc = "none"
    /\ result = NoArg
    /\ streams["in"].content =
         <<Old[3], [name |-> "add_global_key", arg |-> "defeated_gdking"]>>
    /\ streams["in"].pos = 2
    /\ TempFilesLeft = {}

\* C27: ValheimSaveTools.to_json leaves no temporary file behind.  When the
\* call has returned or raised, including when the external command failed
\* or its output was not valid JSON, the temporary JSON output file made
\* for output_file None or file-like and the temporary copy of a file-like
\* input have been removed: the temp files that exist are those that
\* existed before the call.
C27_ToJsonNoTempLeft ==
    [][(ncalls' = ncalls + 1 /\ call'.method = "to_json") =>
         TempFilesLeft' \subseteq TempFilesLeft]_vars

\* The same for the calls of to_json that return.
C27_ReturnedToJsonNoTempLeft ==
    [][(ncalls' = ncalls + 1 /\ call'.method = "to_json" /\ exc' = "none") =>
         TempFilesLeft' \subseteq TempFilesLeft]_vars

\* The temp copy of a file-like input is removed however to_json ends.
C27_InputCopyRemoved ==
    [][(ncalls' = ncalls + 1 /\ call'.method = "to_json") =>
         \A p \in TempFilesLeft' \ TempFilesLeft : Suffix(p.name) = ".json"]_vars

====
